---- MODULE Spec2Model ----
(***************************************************************************)
(* Verification model of the azfilestorepremium bot.                       *)
(*                                                                         *)
(* Every handler invocation and every timer job is a task.  A task         *)
(* advances one awaited call at a time (one persistence statement or one   *)
(* remote call); the statements of different tasks interleave freely,      *)
(* which is the execution model of section 5 of the design document.       *)
(* A store statement is atomic; what a coroutine keeps between two of its  *)
(* awaits is held in the task record under the name the source gives it.   *)
(* Awaits that neither read nor write modelled state (sending or editing   *)
(* a chat message, keeping the message references of a payment request)    *)
(* are folded into the step before them, and the entry of a handler is     *)
(* one step with its first read, before which it holds only its inputs.    *)
(*                                                                         *)
(* The specifications share the variables:                                 *)
(*   SpecEnt    tokens and entitlement (db.py and db_mongo.py)             *)
(*   SpecPay    the payment-request lifecycle (db_mongo.py, handlers.py)   *)
(*   SpecGate   code delivery and the membership gate (handlers.py)        *)
(*   SpecMember the membership evaluation, one evaluation at a time        *)
(*   SpecBatch  channel-range batches, creation and delivery               *)
(*   SpecLink   create_link, one call at a time                            *)
(*   SpecGrant  add_premium_seconds, one call at a time                    *)
(*   SpecUtr    the payment store, one call at a time                      *)
(*   SpecProof  the payment lifecycle from one pending request             *)
(*   SpecDeliver code delivery from one stored link of each target type    *)
(*   SpecCustom the custom batch flow, collection and link generation      *)
(*   SpecScan   the remote join-request lookup, call by call                *)
(*   SpecReject code delivery, one invocation at a time, with rejections    *)
(* started counts the handler invocations of a behaviour; it is what keeps *)
(* the state space finite.                                                 *)
(***************************************************************************)
EXTENDS Integers, FiniteSets, Sequences, Bags, TLC

\* ---------------------------------------------------------------- bounds
NumUsers == 2
NumTokens == 1
MaxTasks == 2
MaxStarts == 2
MaxTime == 400
TickStep == 300
MaxReq == 2
MaxPayStarts == 3
NumChannels == 1
NumCodes == 2
MaxBatches == 2
MaxBatchStarts == 4
MaxLinkCalls == 2
MaxStoreCalls == 4

\* ------------------------------------------------------ program constants
DAY_SECONDS == 86400
PAY_WINDOW == 300
OWNER_ID == 1
MAX_CHANNEL_BATCH_POSTS == 200
BATCH_DELIVERY_LIMIT == 100
SCAN_PAGES == 2

\* None / SQL NULL in an integer column or return value
NULL == -1
\* None in the utr_text column
NO_UTR == "None"
NoRow == [row |-> "none"]

Users == 1..NumUsers
TokenIds == 1..NumTokens
ReqIds == 1..MaxReq
ChannelIds == 1..NumChannels
Codes == 1..NumCodes
Backends == {"sqlite", "mongo"}

Max2(a, b) == IF a >= b THEN a ELSE b

VARIABLES
  now,              \* wall clock, int(time.time())
  backend,          \* which store class serves the run
  premium_until,    \* users.premium_until by user id (0: no row or never granted)
  admins,           \* admins table
  tasks,            \* the running coroutines
  started,          \* number of handler invocations started so far
  tokens,           \* tokens table / collection, by token
  sqlite_changes,   \* SQLite connection state read by SELECT changes()
  redeem_calls,     \* history: per token and user, redeem_token calls made
  redeem_returns,   \* history: per token, how many redeem_token calls returned a grant / None
  token_grants,     \* history: per token, add_premium_seconds calls completed for a redemption
  payment_requests, \* payment_requests collection, by id
  counters,         \* counters.payment_requests.seq
  user_data,        \* context.user_data["pay_utr_request_id"], by user
  jobs,             \* job_queue: scheduled _payment_timeout_job runs
  pay_upi,          \* whether the pay_upi setting is configured
  pay_created,      \* history: user and plan of every request ever inserted
  pay_hist,         \* history: per request, the conditional updates that took effect
  links,            \* links collection, by code
  force_channels,   \* force_channels collection: the mode of each configured channel
  force_join_requests, \* force_join_requests collection (the local join-request cache)
  channel_batches,  \* channel_batches collection, in id order (counters.channel_batches.seq is its length)
  chbatch_state,    \* context.user_data["chbatch_state"], by user
  link_calls,       \* history: the create_link calls made one by one, in order
  batch_input,      \* history: the latest ending link batch_link_input compared with its start
  add_last,         \* history: per user, the latest write of add_premium_seconds
  updated_at,       \* payment_requests.updated_at, followed for the store calls of SpecUtr
  utr_last,         \* history: the latest set_payment_utr call made on its own
  batches,          \* batches collection, in id order (counters.batches.seq is its length)
  custombatch_state, \* context.user_data["custombatch_state"], by user
  files_seq         \* counters.files.seq: the files collection holds ids 1..files_seq

coreVars == <<now, backend, premium_until, admins, tasks, started>>
tokVars == <<tokens, sqlite_changes, redeem_calls, redeem_returns, token_grants>>
payVars == <<payment_requests, counters, user_data, jobs, pay_upi, pay_created, pay_hist>>

utrVars == <<updated_at, utr_last>>
cbVars == <<batches, custombatch_state, files_seq>>
extVars == <<channel_batches, chbatch_state, link_calls, batch_input, add_last, utrVars, cbVars>>
gateVars == <<links, force_channels, force_join_requests, extVars>>

vars == <<coreVars, tokVars, payVars, gateVars>>

\* ------------------------------------------------------------- helpers
IsSqlite == backend = "sqlite"

\* A data-changing SQLite statement sets the connection's changes() value;
\* the Mongo store has no such state.
DmlChanges(n) == IF IsSqlite THEN n ELSE sqlite_changes

\* The running coroutines form a bag: two of them may hold the same values.
Running == BagToSet(tasks)
HasRoom == BagCardinality(tasks) < MaxTasks
Spawn(task) == tasks (+) SetToBag({task})
Become(task, next) == (tasks (-) SetToBag({task})) (+) SetToBag({next})
Finish(task) == tasks' = tasks (-) SetToBag({task})

CanStart == HasRoom /\ started < MaxStarts

\* _is_admin_or_owner
IsAdminOrOwner(u) == u = OWNER_ID \/ u \in admins

\* ------------------------------------------------------------- clock
Tick ==
  /\ now + TickStep <= MaxTime
  /\ now' = now + TickStep
  /\ UNCHANGED <<gateVars, backend, premium_until, admins, tasks, started, tokVars, payVars>>

\* ------------------------------------------------------------- tokens
\* security.new_token: 18 random bytes; a draw never repeats a stored token.
new_token == {tok \in TokenIds : tokens[tok] = NoRow}

\* create_token: upsert that (re)sets used_by to NULL.
create_token(tok, by, grant_seconds) ==
  [tokens EXCEPT ![tok] = [created_by |-> by, used_by |-> NULL, grant_seconds |-> grant_seconds]]

\* gencode -> _generate_tokens_and_send, one token: _upsert_user, then create_token.
gencode(u) ==
  /\ IsAdminOrOwner(u)
  /\ \E tok \in new_token :
       tokens' = create_token(tok, u, DAY_SECONDS)
  /\ sqlite_changes' = DmlChanges(1)
  /\ UNCHANGED <<gateVars, coreVars, redeem_calls, redeem_returns, token_grants, payVars>>

\* The row filter of both conditional updates: token=? AND used_by IS NULL.
TokenUnusedMutant(tok) == tokens[tok] # NoRow
TokenUnused(tok) == tokens[tok] # NoRow /\ tokens[tok].used_by = NULL

\* redeem handler entry: _upsert_user (a write), then redeem_token is called.
redeem(u, tok) ==
  /\ CanStart
  /\ tasks' = Spawn([kind |-> "redeem",
                      pc |-> IF IsSqlite THEN "redeem_select" ELSE "redeem_mongo",
                      user |-> u, token |-> tok])
  /\ sqlite_changes' = DmlChanges(1)
  /\ started' = started + 1
  /\ redeem_calls' = [redeem_calls EXCEPT ![tok][u] = @ + 1]
  /\ UNCHANGED <<gateVars, now, backend, premium_until, admins, tokens, redeem_returns, token_grants, payVars>>

\* What the redeem handler does with the value redeem_token returned:
\* None (or 0) ends the handler, a grant calls add_premium_seconds(user, grant).
RedeemReturn(task, grant) ==
  /\ redeem_returns' = [redeem_returns EXCEPT ![task.token] =
        IF grant = NULL THEN [@ EXCEPT !.none = @ + 1] ELSE [@ EXCEPT !.grant = @ + 1]]
  /\ IF grant = NULL \/ grant = 0
       THEN Finish(task)
       ELSE tasks' = Become(task, [kind |-> "redeem", pc |-> "add_read", token |-> task.token,
               uid |-> task.user, seconds |-> grant, now |-> now])

\* Database.redeem_token, statement 1: SELECT used_by, grant_seconds.
redeem_token_select(task) ==
  /\ task.pc = "redeem_select"
  /\ LET row == tokens[task.token] IN
       IF row = NoRow \/ row.used_by # NULL
         THEN RedeemReturn(task, NULL)
         ELSE /\ tasks' = Become(task, [task EXCEPT !.pc = "redeem_update"] @@
                                         [grant_seconds |-> row.grant_seconds])
              /\ UNCHANGED redeem_returns
  /\ UNCHANGED <<gateVars, now, backend, premium_until, admins, started, tokens, sqlite_changes,
                 redeem_calls, token_grants, payVars>>

\* Database.redeem_token, statement 2: UPDATE ... WHERE token=? AND used_by IS NULL.
redeem_token_update(task) ==
  /\ task.pc = "redeem_update"
  /\ LET tok == task.token IN
       IF TokenUnused(tok)
         THEN /\ tokens' = [tokens EXCEPT ![tok].used_by = task.user]
              /\ sqlite_changes' = 1
         ELSE /\ tokens' = tokens
              /\ sqlite_changes' = 0
  /\ tasks' = Become(task, [task EXCEPT !.pc = "redeem_changes"])
  /\ UNCHANGED <<gateVars, now, backend, premium_until, admins, started, redeem_calls, redeem_returns,
                 token_grants, payVars>>

\* Database.redeem_token, statement 3: SELECT changes(); the commit that
\* follows touches nothing a statement of this connection can see.
redeem_token_changes(task) ==
  /\ task.pc = "redeem_changes"
  /\ RedeemReturn(task, IF sqlite_changes # 1 THEN NULL ELSE task.grant_seconds)
  /\ UNCHANGED <<gateVars, now, backend, premium_until, admins, started, tokens, sqlite_changes,
                 redeem_calls, token_grants, payVars>>

\* MongoDatabase.redeem_token: one find_one_and_update, returning the row before.
mongo_redeem_token(task) ==
  /\ task.pc = "redeem_mongo"
  /\ LET tok == task.token IN
       IF TokenUnused(tok)
         THEN /\ tokens' = [tokens EXCEPT ![tok].used_by = task.user]
              /\ RedeemReturn(task, tokens[tok].grant_seconds)
         ELSE /\ tokens' = tokens
              /\ RedeemReturn(task, NULL)
  /\ UNCHANGED <<gateVars, now, backend, premium_until, admins, started, sqlite_changes,
                 redeem_calls, token_grants, payVars>>

\* -------------------------------------------------------- entitlement
\* is_premium_active: premium_until >= now (a missing row is inactive).
is_premium_activeMutant(u) == IsAdminOrOwner(u) \/ (premium_until[u] > 0 /\ premium_until[u] >= now)
is_premium_active(u) == premium_until[u] > 0 /\ premium_until[u] >= now

\* add_premium_seconds, first await: read the current premium_until.
\* `now` was taken when the call began (held in the task).
add_premium_seconds_read(task) ==
  /\ task.pc = "add_read"
  /\ tasks' = Become(task, [task EXCEPT !.pc = "add_write"] @@
                            [current |-> premium_until[task.uid]])
  /\ UNCHANGED <<gateVars, now, backend, premium_until, admins, started, tokVars, payVars>>

\* new_until = max(current, now) + seconds
new_untilMutant(current, at, seconds) == current + seconds
new_until(current, at, seconds) == Max2(current, at) + seconds

\* add_premium_seconds, second await: upsert premium_until = new_until,
\* which is also the value returned (add_last keeps it with the value the
\* upsert replaced).  What the handlers do after it writes nothing modelled here.
add_premium_seconds_write(task) ==
  /\ task.pc = "add_write"
  /\ premium_until' = [premium_until EXCEPT ![task.uid] =
        new_until(task.current, task.now, task.seconds)]
  /\ sqlite_changes' = DmlChanges(1)
  /\ token_grants' = IF task.kind = "redeem"
                       THEN [token_grants EXCEPT ![task.token] = @ + 1]
                       ELSE token_grants
  /\ pay_hist' = IF task.kind = "payadm"
                   THEN [pay_hist EXCEPT ![task.rid].granted = @ + 1,
                                          ![task.rid].grant_args =
                                             @ \cup {<<task.uid, task.seconds>>}]
                   ELSE pay_hist
  /\ add_last' = [add_last EXCEPT ![task.uid] =
        [prior |-> premium_until[task.uid], at |-> task.now, seconds |-> task.seconds,
         returned |-> new_until(task.current, task.now, task.seconds)]]
  /\ Finish(task)
  /\ UNCHANGED <<now, backend, admins, started, tokens, redeem_calls, redeem_returns,
                 payment_requests, counters, user_data, jobs, pay_upi, pay_created,
                 links, force_channels, force_join_requests, channel_batches, chbatch_state,
                 link_calls, batch_input, utrVars, cbVars>>

\* add_premium_seconds(user_id, seconds) called on its own: now is taken,
\* then the two awaits follow.
GrantSeconds == {0, 50, DAY_SECONDS}
add_premium_seconds(uid, seconds) ==
  /\ CanStart
  /\ tasks' = Spawn([kind |-> "grant", pc |-> "add_read", uid |-> uid,
                      seconds |-> seconds, now |-> now])
  /\ started' = started + 1
  /\ UNCHANGED <<gateVars, now, backend, premium_until, admins, tokVars, payVars>>

\* addpremium handler: _upsert_user, permission check, then
\* add_premium_seconds(uid, max(1, days) * DAY_SECONDS).
GrantDays == {7}
addpremium(u, uid, days) ==
  /\ CanStart
  /\ IsAdminOrOwner(u)
  /\ tasks' = Spawn([kind |-> "addpremium", pc |-> "add_read", uid |-> uid,
                      seconds |-> Max2(1, days) * DAY_SECONDS, now |-> now])
  /\ sqlite_changes' = DmlChanges(1)
  /\ started' = started + 1
  /\ UNCHANGED <<gateVars, now, backend, premium_until, admins, tokens, redeem_calls, redeem_returns,
                 token_grants, payVars>>

\* removepremium handler: set_premium_until(uid, 0), a single upsert.
removepremium(u, uid) ==
  /\ IsAdminOrOwner(u)
  /\ premium_until' = [premium_until EXCEPT ![uid] = 0]
  /\ sqlite_changes' = DmlChanges(1)
  /\ UNCHANGED <<gateVars, now, backend, admins, tasks, started, tokens, redeem_calls, redeem_returns,
                 token_grants, payVars>>

\* ------------------------------------------------ specification SpecEnt
InitCore ==
  /\ now = 1
  /\ premium_until = [u \in Users |-> 0]
  /\ admins = {}
  /\ tasks = EmptyBag
  /\ started = 0

InitTok ==
  /\ tokens = [tok \in TokenIds |-> NoRow]
  /\ sqlite_changes = 0
  /\ redeem_calls = [tok \in TokenIds |-> [u \in Users |-> 0]]
  /\ redeem_returns = [tok \in TokenIds |-> [grant |-> 0, none |-> 0]]
  /\ token_grants = [tok \in TokenIds |-> 0]

NoHist == [expired |-> 0, utr_ok |-> 0, approved |-> 0, rejected |-> 0, granted |-> 0,
           grant_args |-> {}, refused_terminal |-> {}]

InitPayStore ==
  /\ payment_requests = [r \in ReqIds |-> NoRow]
  /\ counters = 0
  /\ user_data = [u \in Users |-> NULL]
  /\ jobs = {}
  /\ pay_upi = FALSE
  /\ pay_created = [r \in ReqIds |-> NoRow]
  /\ pay_hist = [r \in ReqIds |-> NoHist]

InitExt ==
  /\ channel_batches = <<>>
  /\ chbatch_state = [u \in Users |-> NoRow]
  /\ link_calls = <<>>
  /\ batch_input = NoRow
  /\ add_last = [u \in Users |-> NoRow]
  /\ updated_at = [r \in ReqIds |-> 0]
  /\ utr_last = NoRow
  /\ batches = <<>>
  /\ custombatch_state = [u \in Users |-> NoRow]
  /\ files_seq = 0

InitGateStore ==
  /\ links = [c \in Codes |-> NoRow]
  /\ force_channels = [cid \in ChannelIds |-> "none"]
  /\ force_join_requests = {}
  /\ InitExt

InitEnt ==
  /\ InitCore
  /\ backend \in Backends
  /\ InitTok
  /\ InitPayStore
  /\ InitGateStore

NextEnt ==
  \/ Tick
  \/ \E u \in Users : gencode(u)
  \/ \E u \in Users, tok \in TokenIds : redeem(u, tok)
  \/ \E task \in Running : redeem_token_select(task)
  \/ \E task \in Running : redeem_token_update(task)
  \/ \E task \in Running : redeem_token_changes(task)
  \/ \E task \in Running : mongo_redeem_token(task)
  \/ \E task \in Running : add_premium_seconds_read(task)
  \/ \E task \in Running : add_premium_seconds_write(task)
  \/ \E u \in Users, uid \in Users, days \in GrantDays : addpremium(u, uid, days)
  \/ \E u \in Users, uid \in Users : removepremium(u, uid)

SpecEnt == InitEnt /\ [][NextEnt]_vars

\* ------------------------------------------------- claims under SpecEnt
RedeemTokenPcs == {"redeem_select", "redeem_update", "redeem_changes", "redeem_mongo"}

InFlightRedeem(tok) ==
  \E task \in Running : task.pc \in RedeemTokenPcs /\ task.token = tok

\* C1: for every token, of the redeem_token calls made on it exactly one
\* returns the grant and every other returns None, in either backend: never
\* two calls return a grant, a token that ended up used has one call that
\* returned its grant once the calls are over, and at most one entitlement
\* grant is recorded for the token (calls by pairwise different users).
C1_ExactlyOneWinner ==
  \A tok \in TokenIds :
   (\A u \in Users : redeem_calls[tok][u] <= 1) =>
    /\ redeem_returns[tok].grant <= 1
    /\ token_grants[tok] <= 1
    /\ (tokens[tok] # NoRow /\ tokens[tok].used_by # NULL /\ ~InFlightRedeem(tok))
         => redeem_returns[tok].grant = 1

\* C3: the write of add_premium_seconds never stores a premium_until below
\* the value stored just before that write.
C3_GrantNeverDecreases ==
  [][\A task \in Running :
       (task.pc = "add_write" /\ tasks' = tasks (-) SetToBag({task}))
         => premium_until'[task.uid] >= premium_until[task.uid]]_vars

\* C4: used_by of a token changes at most once, from NULL to the id of the
\* user whose redeem_token statement ran; once set, no step changes it.
C4_UsedByOnce ==
  [][\A tok \in TokenIds :
       tokens[tok] # NoRow =>
         /\ tokens'[tok] # NoRow
         /\ tokens[tok].used_by # NULL => tokens'[tok].used_by = tokens[tok].used_by
         /\ (tokens[tok].used_by = NULL /\ tokens'[tok].used_by # NULL) =>
              \E task \in Running :
                /\ task.pc \in {"redeem_update", "redeem_mongo"}
                /\ task.token = tok
                /\ tokens'[tok].used_by = task.user]_vars

\* A second user's conditional UPDATE has run against a token already used.
C4_Witness ==
  \E tok \in TokenIds, task \in Running :
    /\ tokens[tok] # NoRow
    /\ tokens[tok].used_by # NULL
    /\ task.pc = "redeem_changes"
    /\ task.token = tok
    /\ task.user # tokens[tok].used_by

\* ------------------------------------------------------------- payments
\* PAY_PLANS: the days of the plan chosen (the plans differ in nothing else modelled).
PlanDays == {7}
UtrTexts == {"utr"}
OpenStatuses == {"pending", "submitted"}
TerminalStatuses == {"processed", "rejected", "expired"}

IsOpen(r) == payment_requests[r] # NoRow /\ payment_requests[r].status \in OpenStatuses
IsTerminal(r) == payment_requests[r] # NoRow /\ payment_requests[r].status \in TerminalStatuses

CanStartPay == HasRoom /\ started < MaxPayStarts

\* History of one conditional update on request r: counted when it took
\* effect, noted when it was refused on a terminal row.
Recorded(r, op, ok) ==
  [pay_hist EXCEPT ![r] =
     IF ok
       THEN CASE op = "expire"  -> [@ EXCEPT !.expired = @ + 1]
              [] op = "utr"     -> [@ EXCEPT !.utr_ok = @ + 1]
              [] op = "approve" -> [@ EXCEPT !.approved = @ + 1]
              [] op = "reject"  -> [@ EXCEPT !.rejected = @ + 1]
       ELSE IF IsTerminal(r) THEN [@ EXCEPT !.refused_terminal = @ \cup {op}] ELSE @]

\* set_payment_utr: filter {id, status in [pending, submitted]}.
SetUtrFilterMutant(r) == payment_requests[r] # NoRow
SetUtrFilter(r) == payment_requests[r] # NoRow /\ payment_requests[r].status \in {"pending", "submitted"}

set_payment_utr(r, utr_text) ==
  IF SetUtrFilter(r)
    THEN [payment_requests EXCEPT ![r].utr_text = utr_text, ![r].status = "submitted"]
    ELSE payment_requests

\* expire_payment_request_if_pending: filter {id, status pending, utr_text None or ""}.
ExpireFilterMutant(r) == payment_requests[r] # NoRow /\ payment_requests[r].status \in OpenStatuses
ExpireFilter(r) ==
  /\ payment_requests[r] # NoRow
  /\ payment_requests[r].status = "pending"
  /\ payment_requests[r].utr_text \in {NO_UTR, ""}

expire_payment_request_if_pending(r) ==
  IF ExpireFilter(r)
    THEN [payment_requests EXCEPT ![r].status = "expired"]
    ELSE payment_requests

\* approve_payment_request: filter {id, status in [submitted, pending]}.
ApproveFilterMutant(r) == payment_requests[r] # NoRow
ApproveFilter(r) == payment_requests[r] # NoRow /\ payment_requests[r].status \in {"submitted", "pending"}

approve_payment_request(r, admin_id) ==
  IF ApproveFilter(r)
    THEN [payment_requests EXCEPT ![r].status = "processed", ![r].processed_by = admin_id,
                                  ![r].processed_at = now]
    ELSE payment_requests

\* reject_payment_request: filter {id, status in [submitted, pending]}.
RejectFilterMutant(r) == payment_requests[r] # NoRow
RejectFilter(r) == payment_requests[r] # NoRow /\ payment_requests[r].status \in {"submitted", "pending"}

reject_payment_request(r, admin_id) ==
  IF RejectFilter(r)
    THEN [payment_requests EXCEPT ![r].status = "rejected", ![r].processed_by = admin_id,
                                  ![r].processed_at = now]
    ELSE payment_requests

\* delete_payment_request
delete_payment_request(r) == [payment_requests EXCEPT ![r] = NoRow]

\* get_latest_open_payment_request: open rows of the user, highest id first.
OpenOf(u) == {r \in ReqIds : IsOpen(r) /\ payment_requests[r].user_id = u}
get_latest_open_payment_request(u) ==
  IF OpenOf(u) = {} THEN NULL ELSE CHOOSE r \in OpenOf(u) : \A q \in OpenOf(u) : q <= r

\* setpay upi <id> / setpay clearupi: set_setting(pay_upi, value or None).
setpay(u, configured) ==
  /\ IsAdminOrOwner(u)
  /\ pay_upi # configured
  /\ pay_upi' = configured
  /\ UNCHANGED <<gateVars, coreVars, tokVars, payment_requests, counters, user_data, jobs,
                 pay_created, pay_hist>>

\* ---------------------------------------- pay_callback, "payplan:" branch
\* Plan-selection coroutines that may still draw a request id.
PayplanBeforeId ==
  BagCardinality([task \in {x \in Running : x.pc \in {"pp_expire", "pp_delete", "pp_nextid"}}
                    |-> CopiesIn(task, tasks)])

\* Entry with data "payplan:<key>": existing = get_latest_open_payment_request(user)
\* and the three checks on it.
payplan(u, days) ==
  /\ CanStartPay
  /\ counters + PayplanBeforeId < MaxReq
  /\ started' = started + 1
  /\ LET existing == get_latest_open_payment_request(u)
         new == [kind |-> "payplan", pc |-> "pp_nextid", user |-> u, plan_days |-> days] IN
       IF existing = NULL
         THEN tasks' = Spawn(new)
         ELSE IF payment_requests[existing].status = "submitted"
           THEN UNCHANGED tasks
           ELSE IF payment_requests[existing].expires_at > now
             THEN UNCHANGED tasks
             ELSE tasks' = Spawn([new EXCEPT !.pc = "pp_expire"] @@ [existing |-> existing])
  /\ UNCHANGED <<gateVars, now, backend, premium_until, admins, tokVars, payVars>>

\* changed = expire_payment_request_if_pending(existing.id); the request is
\* created afterwards whether or not the expiry took effect.
payplan_expire(task) ==
  /\ task.pc = "pp_expire"
  /\ LET r == task.existing
         changed == ExpireFilter(r) IN
       /\ payment_requests' = expire_payment_request_if_pending(r)
       /\ pay_hist' = Recorded(r, "expire", changed)
       /\ tasks' = Become(task, [task EXCEPT !.pc = IF changed THEN "pp_delete" ELSE "pp_nextid"])
  /\ UNCHANGED <<gateVars, now, backend, premium_until, admins, started, tokVars,
                 counters, user_data, jobs, pay_upi, pay_created>>

\* delete_payment_request(existing.id)
payplan_delete(task) ==
  /\ task.pc = "pp_delete"
  /\ payment_requests' = delete_payment_request(task.existing)
  /\ tasks' = Become(task, [task EXCEPT !.pc = "pp_nextid"])
  /\ UNCHANGED <<gateVars, now, backend, premium_until, admins, started, tokVars,
                 counters, user_data, jobs, pay_upi, pay_created, pay_hist>>

\* create_payment_request, first await: now = _now(), then _next_id ($inc).
create_payment_request_next_id(task) ==
  /\ task.pc = "pp_nextid"
  /\ counters < MaxReq
  /\ counters' = counters + 1
  /\ tasks' = Become(task, [kind |-> "payplan", pc |-> "pp_insert", user |-> task.user,
        plan_days |-> task.plan_days, rid |-> counters + 1, now |-> now])
  /\ UNCHANGED <<gateVars, now, backend, premium_until, admins, started, tokVars,
                 payment_requests, user_data, jobs, pay_upi, pay_created, pay_hist>>

\* The document create_payment_request inserts.
NewRequest(user_id, plan_days, at) ==
  [user_id |-> user_id, plan_days |-> plan_days, status |-> "pending", utr_text |-> NO_UTR,
   expires_at |-> at + PAY_WINDOW, processed_by |-> NULL, processed_at |-> NULL]

\* create_payment_request, second await: insert_one; then the get_setting
\* reads.  Without a UPI id the handler returns here, with the request
\* stored and no timeout job scheduled.
create_payment_request_insert(task) ==
  /\ task.pc = "pp_insert"
  /\ LET r == task.rid IN
       /\ payment_requests' = [payment_requests EXCEPT ![r] =
            NewRequest(task.user, task.plan_days, task.now)]
       /\ pay_created' = [pay_created EXCEPT ![r] =
            [user_id |-> task.user, plan_days |-> task.plan_days]]
  /\ IF pay_upi THEN tasks' = Become(task, [task EXCEPT !.pc = "pp_schedule"]) ELSE Finish(task)
  /\ UNCHANGED <<gateVars, now, backend, premium_until, admins, started, tokVars,
                 counters, user_data, jobs, pay_upi, pay_hist>>

\* After the payment message is sent:
\* job_queue.run_once(_payment_timeout_job, when=300, data={"request_id": rid}).
payplan_schedule(task) ==
  /\ task.pc = "pp_schedule"
  /\ jobs' = jobs \cup {[request_id |-> task.rid, due |-> now + PAY_WINDOW]}
  /\ Finish(task)
  /\ UNCHANGED <<gateVars, now, backend, premium_until, admins, started, tokVars,
                 payment_requests, counters, user_data, pay_upi, pay_created, pay_hist>>

\* ------------------------------------------------- _payment_timeout_job
\* The job queue fires a due job: req = get_payment_request(rid); return
\* unless the request is pending and past its deadline.
TimeoutJobReturnsMutant(req) == req.expires_at > now
TimeoutJobReturns(req) == req.status # "pending" \/ req.expires_at > now

payment_timeout_job(j) ==
  /\ HasRoom
  /\ j \in jobs
  /\ j.due <= now
  /\ jobs' = jobs \ {j}
  /\ LET r == j.request_id IN
       IF payment_requests[r] = NoRow
         THEN UNCHANGED tasks
         ELSE IF TimeoutJobReturns(payment_requests[r])
           THEN UNCHANGED tasks
           ELSE tasks' = Spawn([kind |-> "timeout", pc |-> "tj_expire", rid |-> r])
  /\ UNCHANGED <<gateVars, now, backend, premium_until, admins, started, tokVars,
                 payment_requests, counters, user_data, pay_upi, pay_created, pay_hist>>

\* changed = expire_payment_request_if_pending(rid); if not changed: return.
payment_timeout_expire(task) ==
  /\ task.pc = "tj_expire"
  /\ LET r == task.rid
         changed == ExpireFilter(r) IN
       /\ payment_requests' = expire_payment_request_if_pending(r)
       /\ pay_hist' = Recorded(r, "expire", changed)
       /\ IF changed THEN tasks' = Become(task, [task EXCEPT !.pc = "tj_delete"]) ELSE Finish(task)
  /\ UNCHANGED <<gateVars, now, backend, premium_until, admins, started, tokVars,
                 counters, user_data, jobs, pay_upi, pay_created>>

\* delete_payment_request(rid), then the notice to the user.
payment_timeout_delete(task) ==
  /\ task.pc = "tj_delete"
  /\ payment_requests' = delete_payment_request(task.rid)
  /\ Finish(task)
  /\ UNCHANGED <<gateVars, now, backend, premium_until, admins, started, tokVars,
                 counters, user_data, jobs, pay_upi, pay_created, pay_hist>>

\* ----------------------------------------- pay_callback, "payutr:" branch
\* context.user_data["pay_utr_request_id"] = rid, with rid taken from the
\* callback data as it is (an id never issued reads like a deleted request).
payutr(u, rid) ==
  /\ started < MaxPayStarts
  /\ pay_created[rid] # NoRow
  /\ started' = started + 1
  /\ user_data' = [user_data EXCEPT ![u] = rid]
  /\ UNCHANGED <<gateVars, now, backend, premium_until, admins, tasks, tokVars,
                 payment_requests, counters, jobs, pay_upi, pay_created, pay_hist>>

\* ------------------------------------------------------- pay_utr_input
\* Entry: rid = context.user_data.get("pay_utr_request_id"), return if unset;
\* req = get_payment_request(rid) and the checks up to the conditional update.
\* A message that carries no text, photo or document only prompts again.
pay_utr_input(u) ==
  /\ CanStartPay
  /\ user_data[u] # NULL
  /\ started' = started + 1
  /\ LET r == user_data[u]
         req == payment_requests[r]
         new == [kind |-> "utr", user |-> u, rid |-> r] IN
       IF req = NoRow
         THEN /\ user_data' = [user_data EXCEPT ![u] = NULL]
              /\ UNCHANGED tasks
         ELSE IF req.status = "pending" /\ req.expires_at > 0 /\ req.expires_at <= now
           THEN /\ tasks' = Spawn(new @@ [pc |-> "utr_expire"])
                /\ UNCHANGED user_data
           ELSE /\ \/ \E utr_text \in UtrTexts :
                        tasks' = Spawn(new @@ [pc |-> "utr_set", utr_text |-> utr_text])
                   \/ UNCHANGED tasks
                /\ UNCHANGED user_data
  /\ UNCHANGED <<gateVars, now, backend, premium_until, admins, tokVars,
                 payment_requests, counters, jobs, pay_upi, pay_created, pay_hist>>

\* Lazy expiry: expire_payment_request_if_pending(rid), result not looked at.
pay_utr_expire(task) ==
  /\ task.pc = "utr_expire"
  /\ LET r == task.rid IN
       /\ payment_requests' = expire_payment_request_if_pending(r)
       /\ pay_hist' = Recorded(r, "expire", ExpireFilter(r))
  /\ tasks' = Become(task, [task EXCEPT !.pc = "utr_delete"])
  /\ UNCHANGED <<gateVars, now, backend, premium_until, admins, started, tokVars,
                 counters, user_data, jobs, pay_upi, pay_created>>

\* delete_payment_request(rid), whatever the expiry returned; user_data.pop.
pay_utr_delete(task) ==
  /\ task.pc = "utr_delete"
  /\ payment_requests' = delete_payment_request(task.rid)
  /\ user_data' = [user_data EXCEPT ![task.user] = NULL]
  /\ Finish(task)
  /\ UNCHANGED <<gateVars, now, backend, premium_until, admins, started, tokVars,
                 counters, jobs, pay_upi, pay_created, pay_hist>>

\* ok = set_payment_utr(rid, utr_text), then user_data.pop; on success the
\* admins are notified, which writes nothing modelled here.
pay_utr_set(task) ==
  /\ task.pc = "utr_set"
  /\ LET r == task.rid IN
       /\ payment_requests' = set_payment_utr(r, task.utr_text)
       /\ pay_hist' = Recorded(r, "utr", SetUtrFilter(r))
  /\ user_data' = [user_data EXCEPT ![task.user] = NULL]
  /\ Finish(task)
  /\ UNCHANGED <<gateVars, now, backend, premium_until, admins, started, tokVars,
                 counters, jobs, pay_upi, pay_created>>

\* -------------------------------------------------- pay_admin_callback
PayActions == {"approve", "reject"}

\* Entry: _is_admin_or_owner, parse "payadm:<action>:<rid>",
\* req = get_payment_request(rid); return if missing or already handled.
pay_admin_callback(u, action, rid) ==
  /\ CanStartPay
  /\ IsAdminOrOwner(u)
  /\ pay_created[rid] # NoRow
  /\ started' = started + 1
  /\ LET req == payment_requests[rid] IN
       IF req = NoRow
         THEN UNCHANGED tasks
         ELSE IF req.status \in {"processed", "rejected"}
           THEN UNCHANGED tasks
           ELSE tasks' = Spawn([kind |-> "payadm", pc |-> "padm_update", admin |-> u,
                                action |-> action, rid |-> rid,
                                user_id |-> req.user_id, plan_days |-> req.plan_days])
  /\ UNCHANGED <<gateVars, now, backend, premium_until, admins, tokVars, payVars>>

\* ok = approve_payment_request / reject_payment_request; "Already handled"
\* if not ok.  After an approval add_premium_seconds(req.user_id,
\* req.plan_days * DAY_SECONDS) begins; a rejection ends the handler.
pay_admin_update(task) ==
  /\ task.pc = "padm_update"
  /\ LET r == task.rid
         approve == task.action = "approve"
         ok == IF approve THEN ApproveFilter(r) ELSE RejectFilter(r) IN
       /\ payment_requests' = IF approve THEN approve_payment_request(r, task.admin)
                                         ELSE reject_payment_request(r, task.admin)
       /\ pay_hist' = Recorded(r, task.action, ok)
       /\ IF ok /\ approve
            THEN tasks' = Become(task, [kind |-> "payadm", pc |-> "add_read", rid |-> r,
                                        uid |-> task.user_id,
                                        seconds |-> task.plan_days * DAY_SECONDS, now |-> now])
            ELSE Finish(task)
  /\ UNCHANGED <<gateVars, now, backend, premium_until, admins, started, tokVars,
                 counters, user_data, jobs, pay_upi, pay_created>>

\* ------------------------------------------------ specification SpecPay
InitPay ==
  /\ InitCore
  /\ backend = "mongo"
  /\ InitTok
  /\ InitPayStore
  /\ InitGateStore

NextPay ==
  \/ Tick
  \/ \E u \in Users, configured \in BOOLEAN : setpay(u, configured)
  \/ \E u \in Users, days \in PlanDays : payplan(u, days)
  \/ \E task \in Running : payplan_expire(task)
  \/ \E task \in Running : payplan_delete(task)
  \/ \E task \in Running : create_payment_request_next_id(task)
  \/ \E task \in Running : create_payment_request_insert(task)
  \/ \E task \in Running : payplan_schedule(task)
  \/ \E j \in jobs : payment_timeout_job(j)
  \/ \E task \in Running : payment_timeout_expire(task)
  \/ \E task \in Running : payment_timeout_delete(task)
  \/ \E u \in Users, rid \in ReqIds : payutr(u, rid)
  \/ \E u \in Users : pay_utr_input(u)
  \/ \E task \in Running : pay_utr_expire(task)
  \/ \E task \in Running : pay_utr_delete(task)
  \/ \E task \in Running : pay_utr_set(task)
  \/ \E u \in Users, action \in PayActions, rid \in ReqIds :
       pay_admin_callback(u, action, rid)
  \/ \E task \in Running : pay_admin_update(task)
  \/ \E task \in Running : add_premium_seconds_read(task)
  \/ \E task \in Running : add_premium_seconds_write(task)

SpecPay == InitPay /\ [][NextPay]_vars

\* ------------------------------------------------- claims under SpecPay
\* C2: a request never goes through both the expiry transition and a proof
\* submission, whichever of expire_payment_request_if_pending and
\* set_payment_utr ran first; at most one expiry transition occurs, and an
\* expired request carries no proof.
C2_ExpiryOrProof ==
  \A r \in ReqIds :
    /\ pay_hist[r].expired <= 1
    /\ ~(pay_hist[r].expired >= 1 /\ pay_hist[r].utr_ok >= 1)
    /\ (payment_requests[r] # NoRow /\ payment_requests[r].status = "expired")
         => payment_requests[r].utr_text = NO_UTR

\* The expiry won the race: set_payment_utr then ran on the expired request
\* and returned false.
C2_Witness ==
  \E r \in ReqIds :
    /\ payment_requests[r] # NoRow
    /\ payment_requests[r].status = "expired"
    /\ pay_hist[r].expired = 1
    /\ "utr" \in pay_hist[r].refused_terminal

StatusChange(r) ==
  /\ payment_requests[r] # NoRow
  /\ payment_requests'[r] # NoRow
  /\ payment_requests'[r].status # payment_requests[r].status

SpecDag ==
  {<<"pending", "submitted">>, <<"pending", "expired">>,
   <<"submitted", "processed">>, <<"submitted", "rejected">>}

\* C5 as stated: every status change is one of pending->submitted,
\* pending->expired, submitted->processed, submitted->rejected.
C5_SpecDag ==
  [][\A r \in ReqIds :
       StatusChange(r) =>
         <<payment_requests[r].status, payment_requests'[r].status>> \in SpecDag]_vars

\* C5, amended: every status change is one of the four above or
\* pending->processed or pending->rejected, and a request starts pending.
C5_CodeDag ==
  [][\A r \in ReqIds :
       /\ StatusChange(r) =>
            <<payment_requests[r].status, payment_requests'[r].status>> \in
               SpecDag \cup {<<"pending", "processed">>, <<"pending", "rejected">>}
       /\ (payment_requests[r] = NoRow /\ payment_requests'[r] # NoRow) =>
            payment_requests'[r].status = "pending"]_vars

\* A request was approved while pending: it is processed and has no proof.
C5_Witness ==
  \E r \in ReqIds :
    /\ payment_requests[r] # NoRow
    /\ payment_requests[r].status = "processed"
    /\ payment_requests[r].utr_text = NO_UTR
    /\ pay_hist[r].approved = 1

\* C6: on a request whose status is processed, rejected or expired none of
\* set_payment_utr, expire_payment_request_if_pending,
\* approve_payment_request, reject_payment_request takes effect: each
\* returns false and status, utr_text, processed_by and processed_at stay
\* as they are for as long as the record exists.
C6_TerminalAbsorbing ==
  [][\A r \in ReqIds :
       IsTerminal(r) =>
         /\ \/ payment_requests'[r] = NoRow
            \/ /\ payment_requests'[r].status = payment_requests[r].status
               /\ payment_requests'[r].utr_text = payment_requests[r].utr_text
               /\ payment_requests'[r].processed_by = payment_requests[r].processed_by
               /\ payment_requests'[r].processed_at = payment_requests[r].processed_at
         /\ pay_hist'[r].expired = pay_hist[r].expired
         /\ pay_hist'[r].utr_ok = pay_hist[r].utr_ok
         /\ pay_hist'[r].approved = pay_hist[r].approved
         /\ pay_hist'[r].rejected = pay_hist[r].rejected]_vars

\* One of the four updates ran on a terminal request and returned false.
C6_Witness ==
  \E r \in ReqIds : IsTerminal(r) /\ pay_hist[r].refused_terminal # {}

GrantInFlight(r) ==
  \E task \in Running : task.kind = "payadm" /\ task.pc \in {"add_read", "add_write"} /\ task.rid = r

\* C7: of all approve and reject clicks on a request at most one succeeds;
\* add_premium_seconds(request user, plan_days * 86400) is called once if the
\* click that succeeded was an approve (once that handler has got there) and
\* never otherwise.
C7_OneDecisionOneGrant ==
  \A r \in ReqIds :
    /\ pay_hist[r].approved + pay_hist[r].rejected <= 1
    /\ pay_hist[r].granted <= pay_hist[r].approved
    /\ (pay_hist[r].approved = 1 /\ ~GrantInFlight(r)) => pay_hist[r].granted = 1
    /\ IF pay_created[r] = NoRow
         THEN pay_hist[r].grant_args = {}
         ELSE pay_hist[r].grant_args \subseteq
                {<<pay_created[r].user_id, pay_created[r].plan_days * DAY_SECONDS>>}

\* An approve succeeded and granted once, and another click on the same
\* request was refused.
C7_Witness ==
  \E r \in ReqIds :
    /\ pay_hist[r].approved = 1
    /\ pay_hist[r].granted = 1
    /\ pay_hist[r].refused_terminal \cap {"approve", "reject"} # {}

\* C8: every user has at most one request whose status is pending or submitted.
C8_AtMostOneOpen == \A u \in Users : Cardinality(OpenOf(u)) <= 1

\* The plan selection that inserted request r is still on its way to
\* job_queue.run_once.
Scheduling(r) ==
  \E task \in Running : task.kind = "payplan" /\ task.pc = "pp_schedule" /\ task.rid = r

\* The expiry check of request r is in the job queue or running.
ExpiryCheckAhead(r) ==
  \/ \E j \in jobs : j.request_id = r
  \/ \E task \in Running : task.kind = "timeout" /\ task.rid = r

\* C16: every request that is pending without proof, once the plan selection
\* that created it is over, has its expiry check ahead of it: the
\* _payment_timeout_job scheduled at creation is in the job queue or running
\* (without it the check at creation time + 300 s never runs).
C16_ExpiryCheckAhead ==
  \A r \in ReqIds :
    (/\ payment_requests[r] # NoRow
     /\ payment_requests[r].status = "pending"
     /\ payment_requests[r].utr_text = NO_UTR
     /\ ~Scheduling(r)) => ExpiryCheckAhead(r)

\* ------------------------------------------------- links and channels
\* security.new_code: a draw never repeats a stored code.
new_code == {c \in Codes : links[c] = NoRow}

\* create_link: upsert by code; every field is set again, uses to 0.
create_linkMutant(store, code, target_type, target_id, access, created_by) ==
  IF store[code] # NoRow THEN store
  ELSE [store EXCEPT ![code] = [target_type |-> target_type, target_id |-> target_id,
          access |-> access, created_by |-> created_by, created_at |-> now, uses |-> 0]]
create_link(store, code, target_type, target_id, access, created_by) ==
  [store EXCEPT ![code] = [target_type |-> target_type, target_id |-> target_id,
     access |-> access, created_by |-> created_by, created_at |-> now, uses |-> 0]]

\* get_link(code): the record stored under the code, or none.
get_link(code) == links[code]

\* One create_link call on its own, with any code and any field values.
TargetTypes == {"file", "chbatch"}
TargetIds == 1..2
Accesses == {"normal", "premium"}

create_link_call(code, target_type, target_id, access, created_by) ==
  /\ Len(link_calls) < MaxLinkCalls
  /\ links' = create_link(links, code, target_type, target_id, access, created_by)
  /\ link_calls' = Append(link_calls,
        [code |-> code, target_type |-> target_type, target_id |-> target_id,
         access |-> access, created_by |-> created_by])
  /\ UNCHANGED <<coreVars, tokVars, payVars, force_channels, force_join_requests,
                 channel_batches, chbatch_state, batch_input, add_last, utrVars, cbVars>>

\* getlink: a normal link and a premium link for one stored file.
getlink(u) ==
  /\ IsAdminOrOwner(u)
  /\ \E normal_code \in new_code, prem_code \in new_code :
       /\ normal_code < prem_code
       /\ links' = create_link(create_link(links, normal_code, "file", 1, "normal", u),
                               prem_code, "file", 1, "premium", u)
  /\ UNCHANGED <<coreVars, tokVars, payVars, force_channels, force_join_requests, extVars>>

\* addadmin (owner only): add_admin(uid).
addadmin(u, uid) ==
  /\ started < MaxStarts
  /\ u = OWNER_ID
  /\ uid \notin admins
  /\ admins' = admins \cup {uid}
  /\ started' = started + 1
  /\ UNCHANGED <<now, backend, premium_until, tasks, tokVars, payVars, gateVars>>

\* removeadmin (owner only): remove_admin(uid).
removeadmin(u, uid) ==
  /\ started < MaxStarts
  /\ u = OWNER_ID
  /\ uid \in admins
  /\ admins' = admins \ {uid}
  /\ started' = started + 1
  /\ UNCHANGED <<now, backend, premium_until, tasks, tokVars, payVars, gateVars>>

ChannelModes == {"direct", "request"}

\* forcech_mode_callback: add_force_channel(cid, mode, ...), an upsert.
forcech_mode_callback(u, cid, mode) ==
  /\ started < MaxStarts
  /\ IsAdminOrOwner(u)
  /\ force_channels[cid] # mode
  /\ force_channels' = [force_channels EXCEPT ![cid] = mode]
  /\ started' = started + 1
  /\ UNCHANGED <<now, backend, premium_until, admins, tasks, tokVars, payVars,
                 links, force_join_requests, extVars>>

\* forcech remove <channel>: remove_force_channel(cid).
forcech_remove(u, cid) ==
  /\ started < MaxStarts
  /\ IsAdminOrOwner(u)
  /\ force_channels[cid] # "none"
  /\ force_channels' = [force_channels EXCEPT ![cid] = "none"]
  /\ started' = started + 1
  /\ UNCHANGED <<now, backend, premium_until, admins, tasks, tokVars, payVars,
                 links, force_join_requests, extVars>>

\* forcech reset and the reset button of the settings panel:
\* clear_force_channels(), which empties the channels and the cache.
forcech_reset(u) ==
  /\ started < MaxStarts
  /\ IsAdminOrOwner(u)
  /\ (\E cid \in ChannelIds : force_channels[cid] # "none") \/ force_join_requests # {}
  /\ force_channels' = [cid \in ChannelIds |-> "none"]
  /\ force_join_requests' = {}
  /\ started' = started + 1
  /\ UNCHANGED <<now, backend, premium_until, admins, tasks, tokVars, payVars, links, extVars>>

\* on_chat_join_request: add_force_join_request(chat, user).
on_chat_join_request(cid, uid) ==
  /\ started < MaxStarts
  /\ <<cid, uid>> \notin force_join_requests
  /\ force_join_requests' = force_join_requests \cup {<<cid, uid>>}
  /\ started' = started + 1
  /\ UNCHANGED <<now, backend, premium_until, admins, tasks, tokVars, payVars,
                 links, force_channels, extVars>>

\* list_force_channels: the configured channels, sorted by channel_id.
RECURSIVE ListFrom(_)
ListFrom(cid) ==
  IF cid > NumChannels
    THEN <<>>
    ELSE (IF force_channels[cid] = "none"
            THEN <<>>
            ELSE <<[channel_id |-> cid, mode |-> force_channels[cid]]>>) \o ListFrom(cid + 1)

list_force_channels == ListFrom(1)

\* ------------------------------------------------ membership evaluation
\* What the platform holds for a channel and a user while the channel is
\* checked: not in the channel, a join request pending, or joined.  Users and
\* channel admins change it at will between two checks.
ChatStates == {"out", "pending", "member"}

\* What a remote call may answer.
JoinRequestReplies == {"found", "empty", "error"}
MemberReplies == {"member", "left", "error"}
\* get_chat_join_requests(chat_id, user_id, limit=1): TypeError when the
\* wrapper takes no user_id.
FastReplies == JoinRequestReplies \cup {"type_error"}
\* _scan over an invite link is skipped when the channel has no http link.
LinkScanReplies == JoinRequestReplies \cup {"skipped"}
\* The raw getChatJoinRequests call.
RawReplies == JoinRequestReplies \cup {"not_ok", "no_token"}

\* The outcomes of the remote calls of one join-request lookup; a call that
\* is not made on the path taken has one fixed value.
ApiOutcomes ==
  {[wrapper |-> TRUE, fast |-> fast, link_scan |-> link_scan, scan |-> scan, raw |-> "empty"] :
     fast \in FastReplies, link_scan \in LinkScanReplies, scan \in JoinRequestReplies}
  \cup
  {[wrapper |-> FALSE, fast |-> "empty", link_scan |-> "skipped", scan |-> "empty", raw |-> raw] :
     raw \in RawReplies}

LookupResult(has_request, err) == [has_request |-> has_request, err |-> err, raised |-> FALSE]
\* `if fast_err and not err` reads fast_err, which the TypeError branch of
\* the fast path leaves unbound: UnboundLocalError.
LookupRaised == [has_request |-> FALSE, err |-> "UnboundLocalError", raised |-> TRUE]

\* _has_pending_join_request_via_raw_api
has_pending_join_request_via_raw_api(raw) ==
  CASE raw = "found" -> LookupResult(TRUE, "")
    [] raw = "empty" -> LookupResult(FALSE, "")
    [] raw = "no_token" -> LookupResult(FALSE, "raw_no_token")
    [] OTHER -> LookupResult(FALSE, "raw_api_error")

\* _has_pending_join_request_via_api: the lookup by user, the scan scoped by
\* invite link, the global scan (at most two pages each), and the error kept.
has_pending_join_request_via_api(api) ==
  IF ~api.wrapper THEN has_pending_join_request_via_raw_api(api.raw)
  ELSE IF "found" \in {api.fast, api.link_scan, api.scan} THEN LookupResult(TRUE, "")
  ELSE LET err == IF api.scan = "error" THEN "api_error" ELSE "" IN
         IF api.fast = "type_error" THEN LookupRaised
         ELSE IF api.fast = "error" /\ err = "" THEN LookupResult(FALSE, "api_error_fast")
         ELSE LookupResult(FALSE, err)

\* The replies the platform can give in state truth: a pending request is
\* found only if there is one (it may be missed: the scans are bounded), and
\* get_chat_member reports a member exactly when the user has joined.
ConsistentLookup(truth, api) ==
  "found" \in {api.fast, api.link_scan, api.scan, api.raw} => truth = "pending"

ConsistentMember(truth, replies) ==
  \A n \in 1..Len(replies) :
    /\ replies[n] = "member" => truth = "member"
    /\ replies[n] = "left" => truth # "member"

\* What the join-request lookup of a channel can return or raise in state
\* truth, over every outcome of its remote calls.
Lookups(truth) ==
  {has_pending_join_request_via_api(api) :
     api \in {a \in ApiOutcomes : ConsistentLookup(truth, a)}}

\* bot.get_chat_member: the replies of the attempts made, the second one
\* only after the first raised.
MemberOutcomes ==
  {<<first>> : first \in MemberReplies \ {"error"}} \cup
  {<<"error", second>> : second \in MemberReplies}

\* details: of the list of diagnostic records the number of records and
\* the latest record are kept.
NoDetails == [len |-> 0, last |-> NoRow]
AppendDetails(details, record) == [len |-> details.len + 1, last |-> record]

\* The value a membership evaluation returns to its caller.
Conclude(task, privileged, ok, missing) ==
  tasks' = Become(task, [task EXCEPT !.pc = "gate_result"] @@
                        [privileged |-> privileged, ok |-> ok, missing |-> missing,
                         listed |-> FALSE, channels |-> <<>>, details |-> NoDetails,
                         observed |-> NoRow])

\* _joined_all_force_channels: the owner and the admins pass with an empty
\* missing list, everyone else is evaluated.
joined_all_force_channels(task) ==
  /\ task.pc = "d_gate"
  /\ IF task.user = OWNER_ID \/ task.user \in admins
       THEN Conclude(task, TRUE, TRUE, <<>>)
       ELSE tasks' = Become(task, [task EXCEPT !.pc = "g_list"] @@ [privileged |-> FALSE])
  /\ UNCHANGED <<now, backend, premium_until, admins, started, tokVars, payVars,
                 gateVars>>

\* if not channels: return True, [], []
NoChannelsOkMutant == FALSE
NoChannelsOk == TRUE

\* _joined_all_force_channels_details: channels = list_force_channels();
\* no channel configured: pass.
joined_all_force_channels_details(task) ==
  /\ task.pc = "g_list"
  /\ LET channels == list_force_channels IN
       IF channels = <<>>
         THEN tasks' = Become(task, [task EXCEPT !.pc = "gate_result"] @@
                                    [ok |-> NoChannelsOk, missing |-> <<>>, listed |-> TRUE,
                                     channels |-> channels, details |-> NoDetails,
                                     observed |-> NoRow])
         ELSE tasks' = Become(task, [task EXCEPT !.pc = "g_channel"] @@
                                    [listed |-> TRUE, channels |-> channels, i |-> 1,
                                     missing |-> <<>>, details |-> NoDetails, observed |-> NoRow])
  /\ UNCHANGED <<now, backend, premium_until, admins, started, tokVars, payVars,
                 gateVars>>

\* is_joined after at most two get_chat_member attempts.
IsJoined(first, second) == IF first # "error" THEN first = "member" ELSE second = "member"

\* member_err: set only when the retry failed too.
MemberErrorMutant(first, second) == ""
MemberError(first, second) ==
  IF first = "error" /\ second = "error" THEN "member_check_failed" ELSE ""

\* passed = bool(has_request or is_joined) in request mode, bool(is_joined) otherwise.
PassedMutant(mode, has_request, is_joined) == is_joined
Passed(mode, has_request, is_joined) ==
  IF mode = "request" THEN has_request \/ is_joined ELSE is_joined

\* has_request: False unless mode == "request", where it is the cache hit or
\* what the remote lookup found.
HasRequestMutant(mode, cached, found) == cached \/ found
HasRequest(mode, cached, found) == mode = "request" /\ (cached \/ found)

\* has_request = await db.has_force_join_request(cid, user_id);
\* if not has_request: the remote lookup.  Only in request mode.
LookupRemoteMutant(mode, cached) == mode = "request"
LookupRemote(mode, cached) == mode = "request" /\ ~cached

\* return (len(missing) == 0), missing, details
AllPassedMutant(missing) == TRUE
AllPassed(missing) == Len(missing) = 0

\* One turn of the loop over the channels: the join-request cache, the
\* remote join-request lookup when the cache misses (a hit is cached), the
\* membership query with its one retry, the channel's pass condition and
\* its diagnostic record.  An exception of the lookup leaves the evaluation.
\* observed keeps next to the latest diagnostic record the platform state
\* and the calls made.
check_channel(task, truth, replies) ==
  /\ task.pc = "g_channel"
  /\ ConsistentMember(truth, replies)
  /\ LET ch == task.channels[task.i]
         cached == <<ch.channel_id, task.user>> \in force_join_requests
         remote == LookupRemote(ch.mode, cached)
         first == replies[1]
         second == IF Len(replies) = 2 THEN replies[2] ELSE "unasked" IN
     \E lookup \in IF remote THEN Lookups(truth) ELSE {LookupResult(FALSE, "")} :
       LET has_request == HasRequest(ch.mode, cached, lookup.has_request)
           is_joined == IsJoined(first, second)
           passed == Passed(ch.mode, has_request, is_joined)
           missing == IF passed THEN task.missing ELSE Append(task.missing, ch.channel_id)
           details == AppendDetails(task.details,
                        [channel_id |-> ch.channel_id, mode |-> ch.mode, joined |-> is_joined,
                         request |-> has_request, passed |-> passed,
                         member_error |-> MemberError(first, second),
                         request_api_error |-> lookup.err])
           observed == [truth |-> truth, cached |-> cached, remote |-> remote,
                        found |-> lookup.has_request, replies |-> replies] IN
         IF lookup.raised
           THEN /\ tasks' = Become(task, [task EXCEPT !.pc = "gate_abort"])
                /\ UNCHANGED force_join_requests
           ELSE /\ force_join_requests' =
                     IF remote /\ lookup.has_request
                       THEN force_join_requests \cup {<<ch.channel_id, task.user>>}
                       ELSE force_join_requests
                /\ IF task.i = Len(task.channels)
                     THEN tasks' = Become(task, [task EXCEPT !.pc = "gate_result", !.missing = missing,
                                                             !.details = details, !.observed = observed] @@
                                                [ok |-> AllPassed(missing)])
                     ELSE tasks' = Become(task, [task EXCEPT !.i = @ + 1, !.missing = missing,
                                                             !.details = details, !.observed = observed])
  /\ UNCHANGED <<now, backend, premium_until, admins, started, tokVars, payVars,
                 links, force_channels, extVars>>

\* The exception of the lookup is caught by neither _joined_all_force_channels_details
\* nor its callers: the handler ends there, with nothing sent.
evaluation_raised(task) ==
  /\ task.pc = "gate_abort"
  /\ Finish(task)
  /\ UNCHANGED <<now, backend, premium_until, admins, started, tokVars, payVars, gateVars>>

\* forcechdebug <user_id> (admin or owner): the evaluation of
\* _joined_all_force_channels_details for that user, reported as PASS or BLOCK.
forcechdebug(u, uid) ==
  /\ CanStart
  /\ IsAdminOrOwner(u)
  /\ started' = started + 1
  /\ tasks' = Spawn([kind |-> "forcechdebug", pc |-> "g_list", user |-> uid,
                     privileged |-> IsAdminOrOwner(uid)])
  /\ UNCHANGED <<now, backend, premium_until, admins, tokVars, payVars, gateVars>>

\* forcechdebug prints PASS or BLOCK and the per-channel details.
forcechdebug_report(task) ==
  /\ task.pc = "gate_result"
  /\ task.kind = "forcechdebug"
  /\ Finish(task)
  /\ UNCHANGED <<now, backend, premium_until, admins, started, tokVars, payVars, gateVars>>

\* ----------------------------------------------------- _deliver_by_code
\* start <code> and recheck_callback: link = get_link(code); an unknown code
\* is answered "Invalid or expired link".
start(u, code) ==
  /\ CanStart
  /\ started' = started + 1
  /\ IF links[code] = NoRow
       THEN UNCHANGED tasks
       ELSE tasks' = Spawn([kind |-> "deliver", pc |-> "d_gate", user |-> u, code |-> code,
                            access |-> links[code].access,
                            target_type |-> links[code].target_type,
                            target_id |-> links[code].target_id])
  /\ UNCHANGED <<now, backend, premium_until, admins, tokVars, payVars, gateVars>>

\* The premium condition of _deliver_by_code: link["access"] == "premium".
PremiumLinkMutant(access) == FALSE
PremiumLink(access) == access = "premium"

\* if not ok_join: the join keyboard is sent and the handler returns.
JoinRefusedMutant(ok_join) == FALSE
JoinRefused(ok_join) == ~ok_join

\* if not ok_join: "Access Locked", return.
\* if link["access"] == "premium" and not is_premium_active(user): return.
deliver_premium_check(task) ==
  /\ task.pc = "gate_result"
  /\ task.kind = "deliver"
  /\ IF JoinRefused(task.ok)
       THEN Finish(task)
       ELSE IF PremiumLink(task.access)
         THEN IF is_premium_active(task.user)
                THEN tasks' = Become(task, [task EXCEPT !.pc = "d_send"] @@ [premium |-> "active"])
                ELSE Finish(task)
         ELSE tasks' = Become(task, [task EXCEPT !.pc = "d_send"] @@ [premium |-> "unchecked"])
  /\ UNCHANGED <<now, backend, premium_until, admins, started, tokVars, payVars, gateVars>>

\* What the platform answers to one send or copy call: the message, a
\* RetryAfter, or another error (user blocked the bot, post deleted, ...).
SendReplies == {"ok", "retry_after", "error"}

\* target_type "file": file_row = get_file(target_id); a missing record is
\* answered "File not found".  (The program never deletes a file record; one
\* is missing only when the store was edited by hand.)
deliver_file(task, file_row) ==
  /\ task.pc = "d_send"
  /\ task.target_type = "file"
  /\ IF file_row
       THEN tasks' = Become(task, [task EXCEPT !.pc = "d_file"])
       ELSE Finish(task)
  /\ UNCHANGED <<now, backend, premium_until, admins, started, tokVars, payVars, gateVars>>

\* await _send_file(...): the file is re-emitted to the user.  _send_file
\* catches nothing, and neither does _deliver_by_code around it: a send that
\* raises ends the handler there.
deliver_send(task, reply) ==
  /\ task.pc = "d_file"
  /\ IF reply = "ok"
       THEN tasks' = Become(task, [task EXCEPT !.pc = "d_mark"])
       ELSE Finish(task)
  /\ UNCHANGED <<now, backend, premium_until, admins, started, tokVars, payVars, gateVars>>

\* get_batch_file_ids(batch_id): the file_ids of the row, [] without one.
get_batch_file_ids(batch_id) ==
  IF batch_id \in 1..Len(batches) THEN batches[batch_id].file_ids ELSE <<>>

\* target_type "batch": an empty batch and one of more than 100 members are
\* refused, otherwise the loop over the members begins.
deliver_batch(task) ==
  /\ task.pc = "d_send"
  /\ task.target_type = "batch"
  /\ LET file_ids == get_batch_file_ids(task.target_id) IN
       IF file_ids = <<>> \/ Len(file_ids) > BATCH_DELIVERY_LIMIT
         THEN Finish(task)
         ELSE tasks' = Become(task, [file_ids |-> file_ids, i |-> 1, sent |-> 0] @@
                                    [task EXCEPT !.pc = "d_member"])
  /\ UNCHANGED <<now, backend, premium_until, admins, started, tokVars, payVars, gateVars>>

\* One turn of "for fid in file_ids": file_row = get_file(fid); a missing
\* record is passed over; otherwise await _send_file(...), with no try
\* around it: a send that raises ends the handler inside the loop.
deliver_batch_member(task, file_row, reply) ==
  /\ task.pc = "d_member"
  /\ LET next == IF task.i = Len(task.file_ids) THEN "d_mark" ELSE "d_member" IN
       IF ~file_row
         THEN tasks' = Become(task, [task EXCEPT !.pc = next, !.i = @ + 1])
         ELSE IF reply = "ok"
           THEN tasks' = Become(task, [task EXCEPT !.pc = next, !.i = @ + 1, !.sent = @ + 1])
           ELSE Finish(task)
  /\ UNCHANGED <<now, backend, premium_until, admins, started, tokVars, payVars, gateVars>>

\* target_type "msg": msg_row = get_message(target_id); a missing record is
\* answered "Message not found".
deliver_message(task, msg_row) ==
  /\ task.pc = "d_send"
  /\ task.target_type = "msg"
  /\ IF msg_row
       THEN tasks' = Become(task, [task EXCEPT !.pc = "d_msg"])
       ELSE Finish(task)
  /\ UNCHANGED <<now, backend, premium_until, admins, started, tokVars, payVars, gateVars>>

\* copy_message of the stored message inside try/except Exception: any
\* failure is answered "Unable to deliver this message" and the handler
\* returns before mark_link_used.
deliver_message_copy(task, reply) ==
  /\ task.pc = "d_msg"
  /\ IF reply = "ok"
       THEN tasks' = Become(task, [task EXCEPT !.pc = "d_mark"])
       ELSE Finish(task)
  /\ UNCHANGED <<now, backend, premium_until, admins, started, tokVars, payVars, gateVars>>

\* Database.mark_link_used: one update with $inc uses (uses = uses + 1 in SQL).
MarkUsedMutant(store, code) == [store EXCEPT ![code].uses = 1]
MarkUsed(store, code) == [store EXCEPT ![code].uses = @ + 1]

\* mark_link_used(code): $inc uses.
mark_link_used(task) ==
  /\ task.pc = "d_mark"
  /\ links' = MarkUsed(links, task.code)
  /\ Finish(task)
  /\ UNCHANGED <<now, backend, premium_until, admins, started, tokVars, payVars,
                 force_channels, force_join_requests, extVars>>

\* ------------------------------------------------- channel-range batch
\* The post ids and the chats a post link can name; chat 0 is a link that
\* does not parse or whose chat does not resolve.
MsgIds == {0, 1, 2, 201, 202}
BatchChats == 0..2

CanStartBatch == HasRoom /\ started < MaxBatchStarts

\* total = end_id - start_id + 1
RangeTotal(start_id, end_id) == end_id - start_id + 1

\* batch_link_input, ending link: end_id < start_id and
\* total > MAX_CHANNEL_BATCH_POSTS are each answered with an error.
RangeAcceptedMutant(start_id, end_id) == ~(end_id < start_id)
RangeAccepted(start_id, end_id) ==
  ~(end_id < start_id) /\ ~(RangeTotal(start_id, end_id) > MAX_CHANNEL_BATCH_POSTS)

\* _deliver_by_code: if total <= 0 or total > MAX_CHANNEL_BATCH_POSTS
StoredRangeRefused(total) == total <= 0 \/ total > MAX_CHANNEL_BATCH_POSTS

\* get_channel_batch(batch_id)
get_channel_batch(batch_id) ==
  IF batch_id \in 1..Len(channel_batches) THEN channel_batches[batch_id] ELSE NoRow

\* /batch: admins only; "cancel" drops the state, anything else starts the
\* two-link dialogue.
batch(u, cancel) ==
  /\ CanStartBatch
  /\ started' = started + 1
  /\ IF ~IsAdminOrOwner(u)
       THEN UNCHANGED chbatch_state
       ELSE IF cancel
         THEN chbatch_state' = [chbatch_state EXCEPT ![u] = NoRow]
         ELSE chbatch_state' = [chbatch_state EXCEPT ![u] = [step |-> "start"]]
  /\ UNCHANGED <<now, backend, premium_until, admins, tasks, tokVars, payVars, links,
                 force_channels, force_join_requests, channel_batches, link_calls,
                 batch_input, add_last, utrVars, cbVars>>

\* batch_link_input up to its first store call.  The starting link is kept in
\* the state; the ending link is compared with it, and only a range that
\* passes goes on to create_channel_batch.
batch_link_input(u, chat, msg_id, bot_admin) ==
  /\ CanStartBatch
  /\ started' = started + 1
  /\ LET state == chbatch_state[u] IN
     IF state = NoRow \/ ~IsAdminOrOwner(u) \/ chat = 0 \/ msg_id <= 0
       THEN UNCHANGED <<chbatch_state, tasks, batch_input, cbVars>>
     ELSE IF state.step = "start"
       THEN /\ chbatch_state' = [chbatch_state EXCEPT ![u] =
                 [step |-> "end", channel_id |-> chat, start_msg_id |-> msg_id]]
            /\ UNCHANGED <<tasks, batch_input, cbVars>>
     ELSE IF chat # state.channel_id
       THEN UNCHANGED <<chbatch_state, tasks, batch_input, cbVars>>
     ELSE LET start_id == state.start_msg_id
              end_id == msg_id IN
       /\ batch_input' = [user |-> u, start_id |-> start_id, end_id |-> end_id,
                          at |-> started']
       /\ IF ~RangeAccepted(start_id, end_id)
            THEN UNCHANGED <<chbatch_state, tasks, cbVars>>
            ELSE IF ~bot_admin
              THEN /\ chbatch_state' = [chbatch_state EXCEPT ![u] = NoRow]
                   /\ UNCHANGED tasks
              ELSE /\ tasks' = Spawn([kind |-> "batch", pc |-> "b_create", user |-> u,
                                      chat_id |-> chat, start_id |-> start_id,
                                      end_id |-> end_id])
                   /\ UNCHANGED chbatch_state
  /\ UNCHANGED <<now, backend, premium_until, admins, tokVars, payVars, links,
                 force_channels, force_join_requests, channel_batches, link_calls, add_last, utrVars, cbVars>>

\* create_channel_batch: the next id of the collection and one inserted row.
create_channel_batch(task) ==
  /\ task.pc = "b_create"
  /\ Len(channel_batches) < MaxBatches
  /\ channel_batches' = Append(channel_batches,
        [channel_id |-> task.chat_id, start_msg_id |-> task.start_id,
         end_msg_id |-> task.end_id, created_by |-> task.user])
  /\ tasks' = Become(task, [task EXCEPT !.pc = "b_links"] @@
                           [chbatch_id |-> Len(channel_batches) + 1])
  /\ UNCHANGED <<now, backend, premium_until, admins, started, tokVars, payVars, links,
                 force_channels, force_join_requests, chbatch_state, link_calls,
                 batch_input, add_last, utrVars, cbVars>>

\* The two create_link calls of batch_link_input and the end of the dialogue.
batch_create_links(task) ==
  /\ task.pc = "b_links"
  /\ \E normal_code \in new_code, prem_code \in new_code :
       /\ normal_code < prem_code
       /\ links' = create_link(
            create_link(links, normal_code, "chbatch", task.chbatch_id, "normal", task.user),
            prem_code, "chbatch", task.chbatch_id, "premium", task.user)
  /\ chbatch_state' = [chbatch_state EXCEPT ![task.user] = NoRow]
  /\ Finish(task)
  /\ UNCHANGED <<now, backend, premium_until, admins, started, tokVars, payVars,
                 force_channels, force_join_requests, channel_batches, link_calls,
                 batch_input, add_last, utrVars, cbVars>>

\* _deliver_by_code, target_type "chbatch": the stored range is read and
\* checked again; a missing row, a channel the bot does not administer and a
\* refused range each end the delivery before the copy loop.
deliver_channel_batch(task, bot_admin) ==
  /\ task.pc = "d_send"
  /\ task.target_type = "chbatch"
  /\ LET chb == get_channel_batch(task.target_id) IN
       IF chb = NoRow \/ ~bot_admin
         THEN Finish(task)
         ELSE LET total == RangeTotal(chb.start_msg_id, chb.end_msg_id) IN
           IF StoredRangeRefused(total)
             THEN Finish(task)
             ELSE tasks' = Become(task, [task EXCEPT !.pc = "d_copy"] @@
                                        [start_id |-> chb.start_msg_id,
                                         end_id |-> chb.end_msg_id,
                                         mid |-> chb.start_msg_id, last |-> NoRow])
  /\ UNCHANGED <<now, backend, premium_until, admins, started, tokVars, payVars, gateVars>>

\* except RetryAfter: sleep, then copy_message of the same id once more.
CopyRetriedMutant(first) == first # "ok"
CopyRetried(first) == first = "retry_after"

\* except Exception: pass, on the first attempt and on the retry alike; the
\* loop goes on with the next id.
CopyAbortsMutant(reply) == reply = "error"
CopyAborts(reply) == FALSE

\* One turn of "for mid in range(start_id, end_id + 1)": copy_message(mid),
\* answered first; second is the answer to the retry, if one is made.  The
\* task keeps what it did with the id in last.
deliver_copy_message(task, first, second) ==
  /\ task.pc = "d_copy"
  /\ LET retried == CopyRetried(first)
         reply == IF retried THEN second ELSE first
         last == [mid |-> task.mid, attempts |-> IF retried THEN 2 ELSE 1,
                  first |-> first, copied |-> reply = "ok"] IN
       IF CopyAborts(reply)
         THEN Finish(task)
         ELSE tasks' = Become(task, [task EXCEPT
                !.pc = IF task.mid = task.end_id THEN "d_mark" ELSE "d_copy",
                !.mid = @ + 1, !.last = last])
  /\ UNCHANGED <<now, backend, premium_until, admins, started, tokVars, payVars, gateVars>>

\* ----------------------------------------------- specification SpecGate
InitGate ==
  /\ InitCore
  /\ backend = "mongo"
  /\ InitTok
  /\ InitPayStore
  /\ InitGateStore

NextGate ==
  \/ \E u \in Users : getlink(u)
  \/ \E u \in Users, uid \in Users : addadmin(u, uid)
  \/ \E u \in Users, uid \in Users : removeadmin(u, uid)
  \/ \E u \in Users, cid \in ChannelIds, mode \in ChannelModes : forcech_mode_callback(u, cid, mode)
  \/ \E u \in Users, cid \in ChannelIds : forcech_remove(u, cid)
  \/ \E u \in Users : forcech_reset(u)
  \/ \E cid \in ChannelIds, uid \in Users : on_chat_join_request(cid, uid)
  \/ \E u \in Users, uid \in Users, days \in GrantDays : addpremium(u, uid, days)
  \/ \E task \in Running : add_premium_seconds_read(task)
  \/ \E task \in Running : add_premium_seconds_write(task)
  \/ \E u \in Users, code \in Codes : start(u, code)
  \/ \E task \in Running : joined_all_force_channels(task)
  \/ \E task \in Running : joined_all_force_channels_details(task)
  \/ \E task \in Running, truth \in ChatStates, replies \in MemberOutcomes :
       check_channel(task, truth, replies)
  \/ \E task \in Running : evaluation_raised(task)
  \/ \E u \in Users, uid \in Users : forcechdebug(u, uid)
  \/ \E task \in Running : forcechdebug_report(task)
  \/ \E task \in Running : deliver_premium_check(task)
  \/ \E task \in Running, file_row \in BOOLEAN : deliver_file(task, file_row)
  \/ \E task \in Running, reply \in SendReplies : deliver_send(task, reply)
  \/ \E task \in Running : mark_link_used(task)

SpecGate == InitGate /\ [][NextGate]_vars

\* ------------------------------------------------ claims under SpecGate
\* C9: a target is re-emitted only by an invocation that resolved a stored
\* link, for which the membership gate then passed and which, for a premium
\* link, then found is_premium_active(user) true.
C9_DeliveryChecked ==
  \A task \in Running :
    task.pc \in {"d_send", "d_file", "d_mark"} =>
      /\ links[task.code] # NoRow
      /\ task.ok
      /\ task.access = "premium" => task.premium = "active"

\* A premium link has been re-emitted to a user who is neither owner nor
\* admin, after an evaluation of the configured channels.
C9_Witness ==
  \E task \in Running :
    /\ task.pc = "d_mark"
    /\ task.access = "premium"
    /\ task.premium = "active"
    /\ ~task.privileged

\* C10: every membership evaluation made for the owner or for a registered
\* admin returns pass with an empty missing list.
C10_PrivilegedAlwaysPass ==
  \A task \in Running :
    (task.pc = "gate_result" /\ task.privileged) => (task.ok /\ task.missing = <<>>)

\* --------------------------------------------- specification SpecMember
\* The membership evaluation on its own, run by forcechdebug for any user,
\* from every channel configuration the forcech handlers can leave.  One
\* evaluation runs at a time; the handlers that write the channels and the
\* join-request cache interleave with it.
InitMember ==
  /\ InitCore
  /\ backend = "mongo"
  /\ InitTok
  /\ InitPayStore
  /\ links = [c \in Codes |-> NoRow]
  /\ force_channels \in [ChannelIds -> {"none"} \cup ChannelModes]
  /\ force_join_requests = {}
  /\ InitExt

NextMember ==
  \/ \E u \in Users, cid \in ChannelIds, mode \in ChannelModes : forcech_mode_callback(u, cid, mode)
  \/ \E u \in Users, cid \in ChannelIds : forcech_remove(u, cid)
  \/ \E u \in Users : forcech_reset(u)
  \/ \E cid \in ChannelIds, uid \in Users : on_chat_join_request(cid, uid)
  \/ tasks = EmptyBag /\ \E u \in Users, uid \in Users : forcechdebug(u, uid)
  \/ \E task \in Running : joined_all_force_channels_details(task)
  \/ \E task \in Running, truth \in ChatStates, replies \in MemberOutcomes :
       check_channel(task, truth, replies)
  \/ \E task \in Running : evaluation_raised(task)
  \/ \E task \in Running : forcechdebug_report(task)

SpecMember == InitMember /\ [][NextMember]_vars

\* ---------------------------------------------- claims under SpecMember
\* The evaluations that have checked a channel: they hold its diagnostic
\* record and what was observed for it.
Checked ==
  {task \in Running : task.pc \in {"g_channel", "gate_result", "gate_abort"} /\ task.details.len > 0}

IsMissing(task, cid) == \E m \in 1..Len(task.missing) : task.missing[m] = cid

\* C11: an evaluation that read an empty channel list returns pass with an
\* empty missing list, and has made no remote call.
C11_NoChannelsPass ==
  \A task \in Running :
    (task.pc = "gate_result" /\ task.listed /\ task.channels = <<>>) =>
      /\ task.ok
      /\ task.missing = <<>>
      /\ task.details = NoDetails
      /\ task.observed = NoRow

\* An evaluation for a user who is neither owner nor admin has returned
\* with no channel configured.
C11_Witness ==
  \E task \in Running :
    /\ task.pc = "gate_result"
    /\ task.listed
    /\ task.channels = <<>>
    /\ ~task.privileged

\* C12: a request-mode channel passes exactly when a join request was seen,
\* in the cache or by the remote lookup, or the membership query found the
\* user joined; and a channel is reported missing exactly when it did not pass.
C12_RequestModePass ==
  \A task \in Checked :
    LET d == task.details.last
        o == task.observed IN
      /\ d.mode = "request" =>
           (d.passed <=> (o.cached \/ o.found \/ o.replies[Len(o.replies)] = "member"))
      /\ d.passed <=> ~IsMissing(task, d.channel_id)

\* A request-mode channel passed for a user who has joined, with no cache
\* entry and no pending request found by the remote lookup.
C12_Witness ==
  \E task \in Checked :
    /\ task.details.last.mode = "request"
    /\ task.details.last.passed
    /\ ~task.observed.cached
    /\ task.observed.remote
    /\ ~task.observed.found
    /\ task.observed.truth = "member"

\* C13: no outcome of the remote calls ends an evaluation early: one that
\* read a channel list returns with a diagnostic record for every channel.
C13_EvaluationNeverAborts ==
  \A task \in Running :
    /\ task.pc # "gate_abort"
    /\ (task.pc = "gate_result" /\ task.listed) => task.details.len = Len(task.channels)

\* C14: get_chat_member is attempted once, and a second time exactly when
\* the first attempt failed; when both failed the user counts as not joined,
\* the diagnostic record carries the failure, and a direct-mode channel is
\* missing; otherwise the record carries no member error.
C14_MemberRetryOnce ==
  \A task \in Checked :
    LET d == task.details.last
        replies == task.observed.replies IN
      /\ Len(replies) \in {1, 2}
      /\ Len(replies) = 2 <=> replies[1] = "error"
      /\ IF replies = <<"error", "error">>
           THEN /\ ~d.joined
                /\ d.member_error # ""
                /\ d.mode = "direct" => (~d.passed /\ IsMissing(task, d.channel_id))
           ELSE d.member_error = ""

\* Both attempts failed on a direct-mode channel for a user who has joined.
C14_Witness ==
  \E task \in Checked :
    /\ task.details.last.mode = "direct"
    /\ task.observed.replies = <<"error", "error">>
    /\ task.observed.truth = "member"
    /\ IsMissing(task, task.details.last.channel_id)

\* C15: a request-mode channel is reported as passed only for a user who,
\* when the channel is checked, has joined it or has a join request pending
\* on the platform (stated for the users who are neither owner nor admin).
C15_PassedOnlyJoinedOrPending ==
  \A task \in Checked :
    (~task.privileged /\ task.details.last.mode = "request" /\ task.details.last.passed) =>
      task.observed.truth \in {"member", "pending"}

\* ---------------------------------------------- specification SpecBatch
\* The channel_batches collection outlives a deployment: a row may have been
\* stored under another MAX_CHANNEL_BATCH_POSTS or by another writer, which is
\* what the check at delivery is for.  A behaviour starts with no row, or
\* with one stored row and a link to it.
StoredRanges == {<<1, 2>>, <<1, 3>>, <<2, 1>>, <<202, 1>>, <<1, 201>>}

InitBatch ==
  /\ InitCore
  /\ backend = "mongo"
  /\ InitTok
  /\ InitPayStore
  /\ force_channels = [cid \in ChannelIds |-> "none"]
  /\ force_join_requests = {}
  /\ chbatch_state = [u \in Users |-> NoRow]
  /\ link_calls = <<>>
  /\ batch_input = NoRow
  /\ add_last = [u \in Users |-> NoRow]
  /\ updated_at = [r \in ReqIds |-> 0]
  /\ utr_last = NoRow
  /\ batches = <<>>
  /\ custombatch_state = [u \in Users |-> NoRow]
  /\ files_seq = 0
  /\ \/ /\ channel_batches = <<>>
        /\ links = [c \in Codes |-> NoRow]
     \/ \E range \in StoredRanges, access \in {"normal", "premium"} :
          /\ channel_batches = <<[channel_id |-> 1, start_msg_id |-> range[1],
                                  end_msg_id |-> range[2], created_by |-> OWNER_ID]>>
          /\ links = [c \in Codes |->
               IF c = 1 THEN [target_type |-> "chbatch", target_id |-> 1, access |-> access,
                              created_by |-> OWNER_ID, created_at |-> 1, uses |-> 0]
               ELSE NoRow]

NextBatch ==
  \/ \E u \in Users, cancel \in BOOLEAN : batch(u, cancel)
  \/ \E u \in Users, chat \in BatchChats, msg_id \in MsgIds, bot_admin \in BOOLEAN :
       batch_link_input(u, chat, msg_id, bot_admin)
  \/ \E task \in Running : create_channel_batch(task)
  \/ \E task \in Running : batch_create_links(task)
  \/ \E u \in Users, code \in Codes : start(u, code)
  \/ \E task \in Running : joined_all_force_channels(task)
  \/ \E task \in Running : joined_all_force_channels_details(task)
  \/ \E task \in Running : deliver_premium_check(task)
  \/ \E task \in Running, bot_admin \in BOOLEAN : deliver_channel_batch(task, bot_admin)
  \/ \E task \in Running, first \in SendReplies, second \in SendReplies :
       deliver_copy_message(task, first, second)
  \/ \E task \in Running : mark_link_used(task)

SpecBatch == InitBatch /\ [][NextBatch]_vars

\* ----------------------------------------------- claims under SpecBatch
\* A range batch_link_input or _deliver_by_code must refuse.
BadRange(start_id, end_id) ==
  \/ end_id < start_id
  \/ RangeTotal(start_id, end_id) > MAX_CHANNEL_BATCH_POSTS
  \/ RangeTotal(start_id, end_id) <= 0

\* C17: an ending link that makes end < start or end - start + 1 > 200 starts
\* no creation, adds no channel-batch row and writes no link; no row is ever
\* inserted with such a range; and a delivery whose stored range has size
\* <= 0 or > 200 never reaches the copy loop.
C17_BadRangeRefused ==
  [][/\ (batch_input' # batch_input /\ BadRange(batch_input'.start_id, batch_input'.end_id))
        => (tasks' = tasks /\ channel_batches' = channel_batches /\ links' = links)
     /\ \A task \in BagToSet(tasks') :
          (\/ task.pc \in {"b_create", "b_links"}
           \/ task.pc \in {"d_copy", "d_mark"} /\ task.target_type = "chbatch")
            => ~BadRange(task.start_id, task.end_id)
     /\ Len(channel_batches') > Len(channel_batches)
          => ~BadRange(channel_batches'[Len(channel_batches')].start_msg_id,
                       channel_batches'[Len(channel_batches')].end_msg_id)]_vars

\* An over-long ending link has been refused while a delivery has read a
\* link to a stored range of refused size.
C17_Witness ==
  /\ batch_input # NoRow
  /\ RangeTotal(batch_input.start_id, batch_input.end_id) > MAX_CHANNEL_BATCH_POSTS
  /\ channel_batches # <<>>
  /\ StoredRangeRefused(RangeTotal(channel_batches[1].start_msg_id,
                                   channel_batches[1].end_msg_id))
  /\ \E task \in Running : task.pc = "d_send" /\ task.target_type = "chbatch"

\* ----------------------------------------------- specification SpecLink
\* create_link called one call after another on either store, the clock
\* advancing in between.
InitLink ==
  /\ InitCore
  /\ backend \in Backends
  /\ InitTok
  /\ InitPayStore
  /\ InitGateStore

NextLink ==
  \/ Tick
  \/ \E code \in Codes, target_type \in TargetTypes, target_id \in TargetIds,
        access \in Accesses, created_by \in Users :
       create_link_call(code, target_type, target_id, access, created_by)

SpecLink == InitLink /\ [][NextLink]_vars

\* ------------------------------------------------ claims under SpecLink
\* The positions of the create_link calls made with a code.
CallsOf(code) == {n \in 1..Len(link_calls) : link_calls[n].code = code}
LatestCall(code) == link_calls[CHOOSE n \in CallsOf(code) : \A k \in CallsOf(code) : k <= n]

\* C18: whatever create_link calls were made with a code, get_link(code)
\* returns the one record of that code, and its target_type, target_id,
\* access and created_by are those of the latest call.
C18_LatestCallWins ==
  \A code \in Codes :
    CallsOf(code) # {} =>
      /\ get_link(code) # NoRow
      /\ get_link(code).target_type = LatestCall(code).target_type
      /\ get_link(code).target_id = LatestCall(code).target_id
      /\ get_link(code).access = LatestCall(code).access
      /\ get_link(code).created_by = LatestCall(code).created_by

\* create_link has been called twice with one code, the second call with
\* another target, access and creator than the first.
C18_Witness ==
  \E code \in Codes : \E n \in CallsOf(code), k \in CallsOf(code) :
    /\ n < k
    /\ link_calls[n].target_type # link_calls[k].target_type
    /\ link_calls[n].target_id # link_calls[k].target_id
    /\ link_calls[n].access # link_calls[k].access
    /\ link_calls[n].created_by # link_calls[k].created_by

\* ---------------------------------------------- specification SpecGrant
\* add_premium_seconds run one call at a time on either store: a call starts
\* only when no other is under way, and nothing else writes premium_until
\* during a call.  The clock may advance at any moment.
InitGrant ==
  /\ InitCore
  /\ backend \in Backends
  /\ InitTok
  /\ InitPayStore
  /\ InitGateStore

NextGrant ==
  \/ Tick
  \/ tasks = EmptyBag /\ \E uid \in Users, seconds \in GrantSeconds :
       add_premium_seconds(uid, seconds)
  \/ tasks = EmptyBag /\ \E u \in Users, uid \in Users : removepremium(u, uid)
  \/ \E task \in Running : add_premium_seconds_read(task)
  \/ \E task \in Running : add_premium_seconds_write(task)

SpecGrant == InitGrant /\ [][NextGrant]_vars

\* ----------------------------------------------- claims under SpecGrant
\* C19: the write of a call that ran without interleaving stores, and the
\* call returns, max(premium_until before the call, now of the call) +
\* seconds, a user without record counting as 0; the result is never below
\* that maximum, and a lapsed user gets now + seconds.
C19_SequentialGrant ==
  [][\A task \in Running :
       (task.pc = "add_write" /\ tasks' # tasks)
         => LET prior == premium_until[task.uid]
                stored == premium_until'[task.uid] IN
            /\ stored = Max2(prior, task.now) + task.seconds
            /\ add_last'[task.uid].returned = stored
            /\ stored >= Max2(prior, task.now)
            /\ prior < task.now => stored = task.now + task.seconds]_vars

\* A user whose entitlement ended before the call has been granted the full
\* duration from the time of the call.
C19_Witness ==
  \E uid \in Users :
    /\ add_last[uid] # NoRow
    /\ 0 < add_last[uid].prior
    /\ add_last[uid].prior < add_last[uid].at
    /\ add_last[uid].seconds > 0
    /\ add_last[uid].returned = add_last[uid].at + add_last[uid].seconds
    /\ premium_until[uid] = add_last[uid].returned

\* --------------------------------- the payment store, one call at a time
CanCallStore == started < MaxStoreCalls

\* create_payment_request: the next id and one inserted row, updated_at = now.
create_payment_request(u, days) ==
  /\ CanCallStore
  /\ counters < MaxReq
  /\ started' = started + 1
  /\ counters' = counters + 1
  /\ payment_requests' = [payment_requests EXCEPT ![counters + 1] = NewRequest(u, days, now)]
  /\ updated_at' = [updated_at EXCEPT ![counters + 1] = now]
  /\ UNCHANGED <<now, backend, premium_until, admins, tasks, tokVars, user_data, jobs, pay_upi,
                 pay_created, pay_hist, links, force_channels, force_join_requests,
                 channel_batches, chbatch_state, link_calls, batch_input, add_last, utr_last, cbVars>>

\* The matched document of an update_one takes updated_at = now.
Touched(r, matched) == IF matched THEN [updated_at EXCEPT ![r] = now] ELSE updated_at

\* expire_payment_request_if_pending, approve_payment_request and
\* reject_payment_request, each called on its own.
StoreOps == {"expire", "approve", "reject"}
payment_status_call(op, r, admin_id) ==
  /\ CanCallStore
  /\ started' = started + 1
  /\ CASE op = "expire" ->
            /\ payment_requests' = expire_payment_request_if_pending(r)
            /\ updated_at' = Touched(r, ExpireFilter(r))
       [] op = "approve" ->
            /\ payment_requests' = approve_payment_request(r, admin_id)
            /\ updated_at' = Touched(r, ApproveFilter(r))
       [] op = "reject" ->
            /\ payment_requests' = reject_payment_request(r, admin_id)
            /\ updated_at' = Touched(r, RejectFilter(r))
  /\ UNCHANGED <<now, backend, premium_until, admins, tasks, tokVars, counters, user_data, jobs,
                 pay_upi, pay_created, pay_hist, links, force_channels, force_join_requests,
                 channel_batches, chbatch_state, link_calls, batch_input, add_last, utr_last, cbVars>>

\* res.modified_count of set_payment_utr: the matched document counts only
\* when the $set changes one of utr_text, status and updated_at.
modified_count(r, utr_text) ==
  IF /\ SetUtrFilter(r)
     /\ \/ payment_requests[r].utr_text # utr_text
        \/ payment_requests[r].status # "submitted"
        \/ updated_at[r] # now
    THEN 1 ELSE 0

\* set_payment_utr(request_id, utr_text) called on its own:
\* return bool(res.modified_count > 0).
set_payment_utr_call(r, utr_text) ==
  /\ CanCallStore
  /\ started' = started + 1
  /\ payment_requests' = set_payment_utr(r, utr_text)
  /\ updated_at' = Touched(r, SetUtrFilter(r))
  /\ utr_last' = [rid |-> r, utr_text |-> utr_text, before |-> payment_requests[r],
                  after |-> payment_requests'[r], at |-> started',
                  returned |-> modified_count(r, utr_text) > 0]
  /\ UNCHANGED <<now, backend, premium_until, admins, tasks, tokVars, counters, user_data, jobs,
                 pay_upi, pay_created, pay_hist, links, force_channels, force_join_requests,
                 channel_batches, chbatch_state, link_calls, batch_input, add_last, cbVars>>

\* ------------------------------------------------ specification SpecUtr
InitUtr ==
  /\ InitCore
  /\ backend = "mongo"
  /\ InitTok
  /\ InitPayStore
  /\ InitGateStore

NextUtr ==
  \/ Tick
  \/ \E u \in Users, days \in PlanDays : create_payment_request(u, days)
  \/ \E op \in StoreOps, r \in ReqIds, admin_id \in Users : payment_status_call(op, r, admin_id)
  \/ \E r \in ReqIds, utr_text \in UtrTexts : set_payment_utr_call(r, utr_text)

SpecUtr == InitUtr /\ [][NextUtr]_vars

\* ------------------------------------------------- claims under SpecUtr
\* C20: set_payment_utr returns true exactly when the request existed with
\* status pending or submitted before the call (a resubmission included);
\* the row then holds the text with status submitted; when it returns false
\* the row is as it was.
C20_UtrReturn ==
  utr_last # NoRow =>
    /\ utr_last.returned
         <=> (utr_last.before # NoRow /\ utr_last.before.status \in {"pending", "submitted"})
    /\ utr_last.returned
         => (utr_last.after.utr_text = utr_last.utr_text /\ utr_last.after.status = "submitted")
    /\ ~utr_last.returned => utr_last.after = utr_last.before

\* ---------------------------------------------- specification SpecProof
\* The payment handlers of SpecPay, begun where a proof can be sent: the UPI
\* id is configured, the first user has selected a plan (request 1 is
\* pending, its timeout job is scheduled) and has tapped "Send UTR".
InitProof ==
  /\ InitCore
  /\ backend = "mongo"
  /\ InitTok
  /\ InitGateStore
  /\ \E days \in PlanDays :
       /\ payment_requests = [r \in ReqIds |-> IF r = 1 THEN NewRequest(1, days, now) ELSE NoRow]
       /\ pay_created = [r \in ReqIds |->
            IF r = 1 THEN [user_id |-> 1, plan_days |-> days] ELSE NoRow]
  /\ counters = 1
  /\ user_data = [u \in Users |-> IF u = 1 THEN 1 ELSE NULL]
  /\ jobs = {[request_id |-> 1, due |-> now + PAY_WINDOW]}
  /\ pay_upi = TRUE
  /\ pay_hist = [r \in ReqIds |-> NoHist]

SpecProof == InitProof /\ [][NextPay]_vars

\* ----------------------------------------------- claims under SpecProof
\* C21: a request whose proof text is recorded is not moved to expired and
\* not deleted by any step (the only deletions are those of the timeout job,
\* of the sweep at plan selection and of the deadline check of pay_utr_input).
C21_ProofNeverExpired ==
  [][\A r \in ReqIds :
       (payment_requests[r] # NoRow /\ payment_requests[r].utr_text # NO_UTR)
         => (payment_requests'[r] # NoRow /\ payment_requests'[r].status # "expired")]_vars

\* -------------------------------------------- specification SpecDeliver
\* _deliver_by_code on a stored link of each target type.  A behaviour
\* starts with one link (made by admin_media_ingest or /getlink for a file,
\* /getlink for a message, custombatch_callback for a batch, /batch for a
\* channel range) and the record it points to.
StoredFileIds == {<<1>>, <<1, 2>>, <<1, 2, 3>>}
StoredLink(target_type, access) ==
  [c \in Codes |->
     IF c = 1 THEN [target_type |-> target_type, target_id |-> 1, access |-> access,
                    created_by |-> OWNER_ID, created_at |-> 1, uses |-> 0]
     ELSE NoRow]

InitDeliver ==
  /\ InitCore
  /\ backend = "mongo"
  /\ InitTok
  /\ InitPayStore
  /\ force_channels = [cid \in ChannelIds |-> "none"]
  /\ force_join_requests = {}
  /\ chbatch_state = [u \in Users |-> NoRow]
  /\ link_calls = <<>>
  /\ batch_input = NoRow
  /\ add_last = [u \in Users |-> NoRow]
  /\ updated_at = [r \in ReqIds |-> 0]
  /\ utr_last = NoRow
  /\ custombatch_state = [u \in Users |-> NoRow]
  /\ \/ /\ links \in {StoredLink("file", "normal"), StoredLink("msg", "normal")}
        /\ files_seq = 1
        /\ batches = <<>>
        /\ channel_batches = <<>>
     \/ \E file_ids \in StoredFileIds :
          /\ links = StoredLink("batch", "normal")
          /\ files_seq = Len(file_ids)
          /\ batches = <<[created_by |-> OWNER_ID, file_ids |-> file_ids]>>
          /\ channel_batches = <<>>
     \/ \E range \in {<<1, 2>>, <<1, 3>>} :
          /\ links = StoredLink("chbatch", "normal")
          /\ files_seq = 0
          /\ batches = <<>>
          /\ channel_batches = <<[channel_id |-> 1, start_msg_id |-> range[1],
                                  end_msg_id |-> range[2], created_by |-> OWNER_ID]>>

NextDeliver ==
  \/ \E u \in Users, code \in Codes : start(u, code)
  \/ \E task \in Running : joined_all_force_channels(task)
  \/ \E task \in Running : joined_all_force_channels_details(task)
  \/ \E task \in Running : deliver_premium_check(task)
  \/ \E task \in Running, file_row \in BOOLEAN : deliver_file(task, file_row)
  \/ \E task \in Running, reply \in SendReplies : deliver_send(task, reply)
  \/ \E task \in Running : deliver_batch(task)
  \/ \E task \in Running, file_row \in BOOLEAN, reply \in SendReplies :
       deliver_batch_member(task, file_row, reply)
  \/ \E task \in Running, msg_row \in BOOLEAN : deliver_message(task, msg_row)
  \/ \E task \in Running, reply \in SendReplies : deliver_message_copy(task, reply)
  \/ \E task \in Running, bot_admin \in BOOLEAN : deliver_channel_batch(task, bot_admin)
  \/ \E task \in Running, first \in SendReplies, second \in SendReplies :
       deliver_copy_message(task, first, second)
  \/ \E task \in Running : mark_link_used(task)

SpecDeliver == InitDeliver /\ [][NextDeliver]_vars

\* --------------------------------------------- claims under SpecDeliver
\* The task takes its step: one copy of it leaves the bag of coroutines.
Steps(task) == CopiesIn(task, tasks') < CopiesIn(task, tasks)
\* ... and nothing takes its place: the handler is over.
Ends(task) == Steps(task) /\ BagCardinality(tasks') < BagCardinality(tasks)

\* The positions of _deliver_by_code at which the target is resolved and is
\* being re-emitted, or has been.
Resolved == {"d_file", "d_member", "d_msg", "d_copy", "d_mark"}

\* C22: an invocation that has got to re-emitting its resolved target ends
\* only through mark_link_used, which adds exactly one use to the link,
\* whatever the single sends answered; and uses never changes otherwise.
C22_MarkedOnce ==
  [][/\ \A task \in Running :
          (task.pc \in Resolved /\ Ends(task))
            => (task.pc = "d_mark" /\ links'[task.code].uses = links[task.code].uses + 1)
     /\ \A code \in Codes :
          (links[code] # NoRow /\ links'[code] # NoRow /\ links'[code].uses # links[code].uses)
            => (/\ links'[code].uses = links[code].uses + 1
                /\ \E task \in Running : task.pc = "d_mark" /\ task.code = code /\ Ends(task))]_vars

\* The task is followed by one at position pc of the same invocation.
Follows(task, next) == next.kind = task.kind /\ next.code = task.code /\ next.user = task.user

\* C27: the copy loop of a channel range starts at start_id and handles the
\* ids one by one in increasing order up to end_id; each id is attempted once,
\* or twice exactly when the first attempt was answered RetryAfter; whatever
\* the answers, the loop goes on to the next id and, after end_id, to
\* mark_link_used.
C27_EveryIdAttempted ==
  [][/\ \A task \in Running :
          (task.pc = "d_copy" /\ Steps(task))
            => \E next \in BagToSet(tasks') :
                 /\ Follows(task, next)
                 /\ next.pc = IF task.mid = task.end_id THEN "d_mark" ELSE "d_copy"
                 /\ next.mid = task.mid + 1
                 /\ next.last.mid = task.mid
                 /\ next.last.attempts \in {1, 2}
                 /\ next.last.attempts = 2 <=> next.last.first = "retry_after"
     /\ \A next \in BagToSet(tasks') :
          next.pc = "d_copy"
            => /\ next.start_id <= next.mid /\ next.mid <= next.end_id
               /\ next.last = NoRow <=> next.mid = next.start_id]_vars

\* The retry of an id, made after a RetryAfter, has failed too, and the loop
\* is at the next id of the range.
C27_Witness ==
  \E task \in Running :
    /\ task.pc = "d_copy"
    /\ task.last # NoRow
    /\ task.last.attempts = 2
    /\ ~task.last.copied
    /\ task.mid = task.last.mid + 1

\* C28: a turn of the member loop of a batch delivery, whatever get_file and
\* the send answered, is followed by the next member or, after the last
\* member, by mark_link_used.
C28_MemberFailureSkipped ==
  [][\A task \in Running :
       (task.pc = "d_member" /\ Steps(task))
         => \E next \in BagToSet(tasks') :
              /\ Follows(task, next)
              /\ next.pc = IF task.i = Len(task.file_ids) THEN "d_mark" ELSE "d_member"
              /\ next.i = task.i + 1]_vars

\* ------------------------------------- further claims under SpecProof
\* The request has been submitted, approved or rejected.
ResolvedRequest(r) ==
  payment_requests[r] # NoRow /\ payment_requests[r].status \in {"submitted", "processed", "rejected"}

\* C23: on a request that is submitted, processed or rejected, the firing of
\* its timeout job starts nothing and writes nothing, and a timeout job that
\* had read the request while it was still pending makes a conditional update
\* that leaves the record as it is and then ends, without cleanup, deletion
\* or notice.
C23_TimeoutJobNoOp ==
  [][\A r \in ReqIds :
       ResolvedRequest(r) =>
         /\ \A j \in jobs :
              (j.request_id = r /\ j \notin jobs')
                => (tasks' = tasks /\ payment_requests' = payment_requests)
         /\ \A task \in Running :
              (task.kind = "timeout" /\ task.rid = r /\ Steps(task))
                => (payment_requests' = payment_requests /\ Ends(task))]_vars

\* The timeout job has read the request as pending and past its deadline,
\* and the proof was recorded before the job's conditional update.
C23_Witness ==
  \E task \in Running :
    /\ task.kind = "timeout"
    /\ task.pc = "tj_expire"
    /\ payment_requests[task.rid] # NoRow
    /\ payment_requests[task.rid].status = "submitted"

\* --------------------------------------- further claims under SpecPay
\* C24: the record a plan selection inserts is pending with expires_at = the
\* time create_payment_request took + 300, and the plan selection that
\* inserted request r does not end without the timeout job of r in the job
\* queue.
C24_CreatedWithExpiryCheck ==
  [][\A r \in ReqIds :
       /\ (payment_requests[r] = NoRow /\ payment_requests'[r] # NoRow)
            => /\ payment_requests'[r].status = "pending"
               /\ \E task \in Running :
                    /\ task.pc = "pp_insert" /\ task.rid = r
                    /\ payment_requests'[r].expires_at = task.now + PAY_WINDOW
       /\ \A task \in Running :
            (/\ task.kind = "payplan"
             /\ task.pc \in {"pp_insert", "pp_schedule"}
             /\ task.rid = r
             /\ Ends(task))
              => \E j \in jobs' : j.request_id = r]_vars

\* C25 (under SpecProof): a plan selection that found an open request goes
\* on to create a new one only once that request is no longer open: when its
\* sweep leaves the request pending or submitted, the selection ends there;
\* and a selection that finds a submitted request, or a pending one still in
\* time, starts nothing.
C25_OpenRequestBlocksCreation ==
  [][/\ \A task \in Running :
          (/\ task.kind = "payplan"
           /\ task.pc = "pp_expire"
           /\ Steps(task)
           /\ payment_requests'[task.existing] # NoRow
           /\ payment_requests'[task.existing].status \in OpenStatuses)
            => Ends(task)
     /\ \A u \in Users :
          LET existing == get_latest_open_payment_request(u) IN
            (/\ existing # NULL
             /\ \/ payment_requests[existing].status = "submitted"
                \/ payment_requests[existing].expires_at > now
             /\ started' = started + 1
             /\ user_data' = user_data)
              => (\A task \in BagToSet(tasks') :
                    (task.kind = "payplan" /\ task.user = u) => task \in Running)]_vars

\* The task is at a conditional update whose filter matches no record, so
\* that the update returns false.
UpdateRefused(task) ==
  CASE task.pc \in {"tj_expire", "utr_expire"} -> ~ExpireFilter(task.rid)
    [] task.pc = "pp_expire" -> ~ExpireFilter(task.existing)
    [] task.pc = "padm_update" ->
         ~(IF task.action = "approve" THEN ApproveFilter(task.rid) ELSE RejectFilter(task.rid))
    [] task.pc = "utr_set" -> ~SetUtrFilter(task.rid)
    [] OTHER -> FALSE

\* The positions at which a caller deletes the request or begins the grant.
AfterSuccess == {"pp_delete", "tj_delete", "utr_delete", "add_read"}

\* C26 (under SpecProof): a caller whose conditional update returned false
\* does not go on to delete the request or to grant the entitlement.
C26_FalseMeansNoFurtherChange ==
  [][\A task \in Running :
       (Steps(task) /\ UpdateRefused(task))
         => \A next \in BagToSet(tasks') :
              CopiesIn(next, tasks') > CopiesIn(next, tasks) => next.pc \notin AfterSuccess]_vars

\* --------------------------------------------- specification SpecCustom
\* The custom batch flow: /custombatch, the media messages collected by
\* admin_media_ingest, and the Generate Link / Cancel Process buttons.
\* Each handler invocation is counted in started.

\* /custombatch: start collecting with an empty list.
custombatch(u) ==
  /\ started < MaxBatchStarts
  /\ IsAdminOrOwner(u)
  /\ started' = started + 1
  /\ custombatch_state' = [custombatch_state EXCEPT ![u] = [file_ids |-> <<>>]]
  /\ UNCHANGED <<now, backend, premium_until, admins, tasks, tokVars, payVars, links,
                 force_channels, force_join_requests, channel_batches, chbatch_state,
                 link_calls, batch_input, add_last, utrVars, batches, files_seq>>

\* save_file: the id of the stored file with the same file_unique_id (row,
\* 0 when there is none), or the next id of the files counter.
save_file(row) == IF row # 0 THEN row ELSE files_seq + 1

\* admin_media_ingest: the media message of an admin is stored; while a
\* collection is open its id is appended to the collection, otherwise the
\* file gets a normal and a premium link.
admin_media_ingest(u, row) ==
  /\ started < MaxBatchStarts
  /\ IsAdminOrOwner(u)
  /\ row <= files_seq
  /\ started' = started + 1
  /\ files_seq' = IF row # 0 THEN files_seq ELSE files_seq + 1
  /\ LET file_db_id == save_file(row) IN
       IF custombatch_state[u] # NoRow
       THEN /\ custombatch_state' = [custombatch_state EXCEPT
                  ![u].file_ids = Append(custombatch_state[u].file_ids, file_db_id)]
            /\ UNCHANGED links
       ELSE /\ \E normal_code \in new_code, prem_code \in new_code :
                 /\ normal_code < prem_code
                 /\ links' = create_link(create_link(links, normal_code, "file", file_db_id, "normal", u),
                                         prem_code, "file", file_db_id, "premium", u)
            /\ UNCHANGED custombatch_state
  /\ UNCHANGED <<now, backend, premium_until, admins, tasks, tokVars, payVars,
                 force_channels, force_join_requests, channel_batches, chbatch_state,
                 link_calls, batch_input, add_last, utrVars, batches>>

\* create_batch: a new row of the batches collection with the given members.
create_batch(created_by, file_ids) ==
  Append(batches, [created_by |-> created_by, file_ids |-> file_ids])

\* custombatch_callback: "cbcancel" drops the collection; "cbgen" stores the
\* collected ids as one batch, makes its two links and drops the collection.
\* With no open collection, or with "cbgen" on an empty one, nothing changes.
custombatch_callback(u, data) ==
  /\ started < MaxBatchStarts
  /\ IsAdminOrOwner(u)
  /\ custombatch_state[u] # NoRow
  /\ started' = started + 1
  /\ \/ /\ data = "cbcancel"
        /\ UNCHANGED <<batches, links>>
     \/ /\ data = "cbgen"
        /\ custombatch_state[u].file_ids # <<>>
        /\ Len(batches) < MaxBatches
        /\ batches' = create_batch(u, custombatch_state[u].file_ids)
        /\ \E normal_code \in new_code, prem_code \in new_code :
             /\ normal_code < prem_code
             /\ links' = create_link(create_link(links, normal_code, "batch", Len(batches) + 1, "normal", u),
                                     prem_code, "batch", Len(batches) + 1, "premium", u)
  /\ custombatch_state' = [custombatch_state EXCEPT ![u] = NoRow]
  /\ UNCHANGED <<now, backend, premium_until, admins, tasks, tokVars, payVars,
                 force_channels, force_join_requests, channel_batches, chbatch_state,
                 link_calls, batch_input, add_last, utrVars, files_seq>>

\* The owner may be in the middle of a collection: /custombatch followed by
\* that many new media messages.
StoredCollected == {0, 1, BATCH_DELIVERY_LIMIT - 1, BATCH_DELIVERY_LIMIT}

InitCustom ==
  /\ InitCore
  /\ backend = "mongo"
  /\ InitTok
  /\ InitPayStore
  /\ links = [c \in Codes |-> NoRow]
  /\ force_channels = [cid \in ChannelIds |-> "none"]
  /\ force_join_requests = {}
  /\ channel_batches = <<>>
  /\ chbatch_state = [u \in Users |-> NoRow]
  /\ link_calls = <<>>
  /\ batch_input = NoRow
  /\ add_last = [u \in Users |-> NoRow]
  /\ updated_at = [r \in ReqIds |-> 0]
  /\ utr_last = NoRow
  /\ batches = <<>>
  /\ \/ /\ custombatch_state = [u \in Users |-> NoRow]
        /\ files_seq = 0
     \/ \E n \in StoredCollected :
          /\ custombatch_state = [u \in Users |->
               IF u = OWNER_ID THEN [file_ids |-> [i \in 1..n |-> i]] ELSE NoRow]
          /\ files_seq = n

NextCustom ==
  \/ \E u \in Users : custombatch(u)
  \/ \E u \in Users, row \in {0, 1} : admin_media_ingest(u, row)
  \/ \E u \in Users, data \in {"cbgen", "cbcancel"} : custombatch_callback(u, data)

SpecCustom == InitCustom /\ [][NextCustom]_vars

\* C29 (under SpecCustom): every stored batch that a link points to has
\* between 1 and 100 members.
C29_BatchWithinLimit ==
  \A code \in Codes :
    (links[code] # NoRow /\ links[code].target_type = "batch")
      => Len(get_batch_file_ids(links[code].target_id)) \in 1..BATCH_DELIVERY_LIMIT

C31_CacheBeforeLookup ==
  [][\A task \in Running : \A next \in BagToSet(tasks') :
       (/\ task.pc = "g_channel"
        /\ Steps(task)
        /\ next.pc \in {"g_channel", "gate_result"}
        /\ task.channels[task.i].mode = "request") =>
         LET pair == <<task.channels[task.i].channel_id, task.user>>
             o == next.observed IN
           IF pair \in force_join_requests
             THEN /\ ~o.remote
                  /\ next.details.last.request
                  /\ force_join_requests' = force_join_requests
             ELSE /\ o.remote
                  /\ next.details.last.request <=> o.found
                  /\ force_join_requests' =
                       IF o.found THEN force_join_requests \cup {pair} ELSE force_join_requests]_vars

\* A remote lookup found a pending request for a pair the cache did not
\* hold, and the cache holds the pair now.
C31_Witness ==
  \E task \in Checked :
    /\ task.details.last.mode = "request"
    /\ task.observed.remote
    /\ task.observed.found
    /\ ~task.observed.cached
    /\ <<task.details.last.channel_id, task.user>> \in force_join_requests

\* ----------------------------------------------- specification SpecScan
\* _has_pending_join_request_via_api call by call.  A lookup is a task that
\* keeps fast_err, the scan it is in (scope: the invite link's requests or
\* all of the channel's), the turn of that scan's loop, the offset of the
\* next page, and counts the pages it has requested (pages) and the calls
\* made for them (calls); returned holds what it returns or raises.

\* The lookup returns or raises.
LookupReturn(task, done, result) ==
  tasks' = Become(task, [done EXCEPT !.pc = "l_return", !.returned = result])

\* The entry: without bot.get_chat_join_requests the raw call is used.
join_request_lookup(u, invite_link, wrapper) ==
  /\ CanStart
  /\ started' = started + 1
  /\ tasks' = Spawn([kind |-> "lookup", pc |-> IF wrapper THEN "l_fast" ELSE "l_raw", user |-> u,
                     invite_link |-> invite_link, fast_err |-> "unbound", scope |-> "none",
                     turn |-> 0, offset |-> NULL, pages |-> 0, calls |-> 0, returned |-> NoRow])
  /\ UNCHANGED <<now, backend, premium_until, admins, tokVars, payVars, gateVars>>

\* _has_pending_join_request_via_raw_api: one getChatJoinRequests request.
lookup_raw(task, raw) ==
  /\ task.pc = "l_raw"
  /\ LookupReturn(task, task, has_pending_join_request_via_raw_api(raw))
  /\ UNCHANGED <<now, backend, premium_until, admins, started, tokVars, payVars, gateVars>>

\* The scan that follows the by-user query: scoped by the invite link when
\* the channel has an http link, over the whole channel otherwise.
FirstScope(invite_link) == IF invite_link THEN "link" ELSE "global"

\* The by-user query: a hit returns; TypeError leaves fast_err unbound.
lookup_fast(task, fast) ==
  /\ task.pc = "l_fast"
  /\ IF fast = "found"
       THEN LookupReturn(task, task, LookupResult(TRUE, ""))
       ELSE tasks' = Become(task, [task EXCEPT
              !.pc = "l_scan",
              !.fast_err = CASE fast = "type_error" -> "unbound"
                             [] fast = "error" -> "api_error_fast"
                             [] OTHER -> "",
              !.scope = FirstScope(task.invite_link),
              !.turn = 1])
  /\ UNCHANGED <<now, backend, premium_until, admins, started, tokVars, payVars, gateVars>>

\* What a page request may answer: the user's request is on the page, the
\* page is empty, it holds other users' requests, it holds records without
\* a requester, the call fails, or the wrapper rejects the offset keyword.
PageReplies == {"match", "empty", "others", "no_uid", "error", "type_error"}

\* _scan returned (ok, err): a match ends the lookup; the scan scoped by the
\* invite link is followed by the scan of the channel; after that
\* the error to report is chosen, which reads fast_err.
scan_returned(task, ok, err, calls) ==
  LET done == [task EXCEPT !.pages = @ + 1, !.calls = @ + calls] IN
    IF ok THEN LookupReturn(task, done, LookupResult(TRUE, ""))
    ELSE IF task.scope = "link"
      THEN tasks' = Become(task, [done EXCEPT !.scope = "global", !.turn = 1, !.offset = NULL])
    ELSE IF task.fast_err = "unbound" THEN LookupReturn(task, done, LookupRaised)
    ELSE IF task.fast_err # "" /\ err = "" THEN LookupReturn(task, done, LookupResult(FALSE, task.fast_err))
    ELSE LookupReturn(task, done, LookupResult(FALSE, err))

\* One turn of for _ in range(2): the page at the offset is requested, once
\* more under the other keyword after a TypeError.  last_uid is the last
\* requester of a page of other users' requests.
scan_page(task, first, second, last_uid) ==
  /\ task.pc = "l_scan"
  /\ first = "type_error" \/ second = first
  /\ last_uid # task.user
  /\ LET calls == IF first = "type_error" THEN 2 ELSE 1
         reply == IF first = "type_error" THEN second ELSE first IN
       CASE reply \in {"error", "type_error"} -> scan_returned(task, FALSE, "api_error", calls)
         [] reply \in {"empty", "no_uid"} -> scan_returned(task, FALSE, "", calls)
         [] reply = "match" -> scan_returned(task, TRUE, "", calls)
         [] OTHER ->
              IF task.turn = SCAN_PAGES
                THEN scan_returned(task, FALSE, "", calls)
                ELSE tasks' = Become(task, [task EXCEPT !.turn = @ + 1, !.offset = last_uid + 1,
                                                        !.pages = @ + 1, !.calls = @ + calls])
  /\ UNCHANGED <<now, backend, premium_until, admins, started, tokVars, payVars, gateVars>>

\* The caller takes the result, or the exception leaves the caller.
lookup_return(task) ==
  /\ task.pc = "l_return"
  /\ Finish(task)
  /\ UNCHANGED <<now, backend, premium_until, admins, started, tokVars, payVars, gateVars>>

InitScan ==
  /\ InitCore
  /\ backend = "mongo"
  /\ InitTok
  /\ InitPayStore
  /\ InitGateStore

NextScan ==
  \/ \E u \in Users, invite_link \in BOOLEAN, wrapper \in BOOLEAN :
       join_request_lookup(u, invite_link, wrapper)
  \/ \E task \in Running, raw \in RawReplies : lookup_raw(task, raw)
  \/ \E task \in Running, fast \in FastReplies : lookup_fast(task, fast)
  \/ \E task \in Running, first \in PageReplies, second \in PageReplies, last_uid \in Users :
       scan_page(task, first, second, last_uid)
  \/ \E task \in Running : lookup_return(task)

SpecScan == InitScan /\ [][NextScan]_vars

\* C32 (under SpecScan): after the by-user query one lookup requests at most
\* 2 pages in all; a page after the first is requested at the offset taken
\* from the last requester of the page before; and the lookup has returned
\* once a page held the user's request, was empty, or its request failed.
C32_ScanBounded ==
  \A task \in Running :
    task.kind = "lookup" =>
      /\ task.pages <= SCAN_PAGES
      /\ (task.pc = "l_scan" /\ task.turn > 1) => task.offset # NULL
      /\ (task.pc = "l_scan" /\ task.turn = 1) => task.offset = NULL

\* C33 (under SpecEnt): once set_premium_until(user, 0) has stored 0, the
\* user's premium_until stays 0 until the write of a grant that read the
\* revoked value: a grant that had read before the revocation does not
\* bring the entitlement back.
C33_RevocationEffective ==
  [][\A uid \in Users :
       (premium_until[uid] = 0 /\ premium_until'[uid] # 0) =>
         \E task \in Running :
           /\ task.pc = "add_write"
           /\ task.uid = uid
           /\ Ends(task)
           /\ task.current = 0]_vars

\* C34 (under SpecEnt): when a grant for a user completes after another
\* grant for the same user whose stored value is still in place, the stored
\* premium_until is at least the value the two found (the smaller of what
\* the one replaced and what the other read) plus both durations.
C34_NoGrantLost ==
  [][\A task \in Running :
       (/\ task.pc = "add_write"
        /\ Ends(task)
        /\ add_last[task.uid] # NoRow
        /\ premium_until[task.uid] = add_last[task.uid].returned) =>
         LET before == IF task.current < add_last[task.uid].prior
                         THEN task.current ELSE add_last[task.uid].prior IN
           premium_until'[task.uid] >= before + add_last[task.uid].seconds + task.seconds]_vars

\* C35 (under SpecGate): an invocation for the owner or an admin that has
\* passed the membership gate on a premium link goes on to re-emit the
\* target only if the user's premium_until is set and not before now;
\* otherwise it ends there, with nothing re-emitted.
C35_PremiumCheckedForPrivileged ==
  [][\A task \in Running :
       (/\ task.kind = "deliver"
        /\ task.pc = "gate_result"
        /\ Steps(task)
        /\ task.privileged
        /\ task.access = "premium") =>
         IF premium_until[task.user] > 0 /\ premium_until[task.user] >= now
           THEN \E next \in BagToSet(tasks') :
                  Follows(task, next) /\ next.pc = "d_send" /\ next.premium = "active"
           ELSE Ends(task)]_vars

\* A premium link is being re-emitted to the owner or an admin, whose
\* entitlement was found active.
C35_Witness ==
  \E task \in Running :
    /\ task.kind = "deliver"
    /\ task.pc \in {"d_send", "d_file", "d_mark"}
    /\ task.privileged
    /\ task.access = "premium"
    /\ task.premium = "active"
    /\ is_premium_active(task.user)

\* C36 (under SpecMember): the check of a direct-mode channel makes no
\* remote join-request lookup, leaves the join-request cache as it is,
\* records no join request, and the channel passes exactly when the
\* membership query's last answer reports the user as a member, whatever the
\* cache or the platform hold as join requests.
C36_DirectIgnoresRequests ==
  [][\A task \in Running :
       (task.pc = "g_channel" /\ Steps(task) /\ task.channels[task.i].mode = "direct") =>
         /\ force_join_requests' = force_join_requests
         /\ \E next \in BagToSet(tasks') :
              /\ next.pc \in {"g_channel", "gate_result"}
              /\ next.details.len = task.i
              /\ ~next.observed.remote
              /\ ~next.details.last.request
              /\ next.details.last.passed <=>
                   next.observed.replies[Len(next.observed.replies)] = "member"
              /\ next.details.last.passed <=>
                   ~IsMissing(next, task.channels[task.i].channel_id)]_vars

\* A direct-mode channel did not pass for a user whose join request is in
\* the cache and pending on the platform.
C36_Witness ==
  \E task \in Checked :
    /\ task.details.last.mode = "direct"
    /\ task.observed.cached
    /\ task.observed.truth = "pending"
    /\ ~task.details.last.passed
    /\ IsMissing(task, task.details.last.channel_id)

\* C37 (under SpecProof): no step of a proof submission (the message
\* handler started after a 'Submit UTR' press) changes the status or the
\* utr_text of a payment request of another user, or removes it.
C37_ProofOnlyOnOwnRequest ==
  [][\A task \in Running : \A r \in ReqIds :
       (/\ task.kind = "utr"
        /\ Steps(task)
        /\ payment_requests[r] # NoRow
        /\ payment_requests[r].user_id # task.user) =>
         /\ payment_requests'[r] # NoRow
         /\ payment_requests'[r].status = payment_requests[r].status
         /\ payment_requests'[r].utr_text = payment_requests[r].utr_text]_vars

\* C38 (under SpecDeliver): each completed mark_link_used call adds exactly
\* one to the uses the link holds at that moment, whatever other deliveries
\* of the link are under way, and no other step changes uses: uses counts
\* the completed calls and never decreases.
C38_UsesCountsMarks ==
  [][\A code \in Codes :
       links[code] # NoRow =>
         /\ links'[code] # NoRow
         /\ links'[code].uses >= links[code].uses
         /\ IF \E task \in Running : task.pc = "d_mark" /\ task.code = code /\ Ends(task)
              THEN links'[code].uses = links[code].uses + 1
              ELSE links'[code].uses = links[code].uses]_vars

\* Two deliveries of one link have both been marked.
C38_Witness ==
  \E code \in Codes :
    /\ links[code] # NoRow
    /\ links[code].uses = 2
    /\ started = 2
    /\ tasks = EmptyBag

\* --------------------------------------------- specification SpecReject
\* _deliver_by_code, one invocation at a time, on a stored link of either
\* access and each target type, with or without a direct-mode channel to
\* join.  As in SpecBatch the stored channel range may be one that the
\* check at delivery refuses.  No entitlement is granted here: a premium
\* link is refused to every user.
InitReject ==
  /\ InitCore
  /\ backend = "mongo"
  /\ InitTok
  /\ InitPayStore
  /\ force_channels \in [ChannelIds -> {"none", "direct"}]
  /\ force_join_requests = {}
  /\ chbatch_state = [u \in Users |-> NoRow]
  /\ link_calls = <<>>
  /\ batch_input = NoRow
  /\ add_last = [u \in Users |-> NoRow]
  /\ updated_at = [r \in ReqIds |-> 0]
  /\ utr_last = NoRow
  /\ custombatch_state = [u \in Users |-> NoRow]
  /\ \E access \in Accesses :
       \/ /\ links \in {StoredLink("file", access), StoredLink("msg", access)}
          /\ files_seq = 1
          /\ batches = <<>>
          /\ channel_batches = <<>>
       \/ \E file_ids \in StoredFileIds :
            /\ links = StoredLink("batch", access)
            /\ files_seq = Len(file_ids)
            /\ batches = <<[created_by |-> OWNER_ID, file_ids |-> file_ids]>>
            /\ channel_batches = <<>>
       \/ \E range \in {<<1, 2>>, <<1, 3>>, <<2, 1>>} :
            /\ links = StoredLink("chbatch", access)
            /\ files_seq = 0
            /\ batches = <<>>
            /\ channel_batches = <<[channel_id |-> 1, start_msg_id |-> range[1],
                                    end_msg_id |-> range[2], created_by |-> OWNER_ID]>>

NextReject ==
  \/ tasks = EmptyBag /\ \E u \in Users, code \in Codes : start(u, code)
  \/ \E task \in Running : joined_all_force_channels(task)
  \/ \E task \in Running : joined_all_force_channels_details(task)
  \/ \E task \in Running, truth \in ChatStates, replies \in MemberOutcomes :
       check_channel(task, truth, replies)
  \/ \E task \in Running : deliver_premium_check(task)
  \/ \E task \in Running, file_row \in BOOLEAN : deliver_file(task, file_row)
  \/ \E task \in Running, reply \in SendReplies : deliver_send(task, reply)
  \/ \E task \in Running : deliver_batch(task)
  \/ \E task \in Running, file_row \in BOOLEAN, reply \in SendReplies :
       deliver_batch_member(task, file_row, reply)
  \/ \E task \in Running, msg_row \in BOOLEAN : deliver_message(task, msg_row)
  \/ \E task \in Running, reply \in SendReplies : deliver_message_copy(task, reply)
  \/ \E task \in Running, bot_admin \in BOOLEAN : deliver_channel_batch(task, bot_admin)
  \/ \E task \in Running, first \in SendReplies, second \in SendReplies :
       deliver_copy_message(task, first, second)
  \/ \E task \in Running : mark_link_used(task)

SpecReject == InitReject /\ [][NextReject]_vars

\* ---------------------------------------------- claims under SpecReject
\* The invocation is about to be turned away: the membership gate failed,
\* the link is premium and the user's entitlement is not active, the batch
\* is empty or too large, or the channel range is missing or refused.
RejectedNow(task) ==
  \/ /\ task.pc = "gate_result"
     /\ \/ ~task.ok
        \/ /\ task.access = "premium"
           /\ ~(premium_until[task.user] > 0 /\ premium_until[task.user] >= now)
  \/ /\ task.pc = "d_send"
     /\ task.target_type = "batch"
     /\ \/ get_batch_file_ids(task.target_id) = <<>>
        \/ Len(get_batch_file_ids(task.target_id)) > BATCH_DELIVERY_LIMIT
  \/ /\ task.pc = "d_send"
     /\ task.target_type = "chbatch"
     /\ \/ get_channel_batch(task.target_id) = NoRow
        \/ BadRange(get_channel_batch(task.target_id).start_msg_id,
                    get_channel_batch(task.target_id).end_msg_id)

====
